---- MODULE Spec2Model ----
(***************************************************************************)
(* Verification model of the UGTLive OCR post-processing pipeline:         *)
(*   - letterbox padding, size filter and overlap filter of                *)
(*     process_manga_ocr (app/services/MangaOCR/server.py) and of          *)
(*     process_image (app/webserver/process_image_mangaocr.py);            *)
(*   - calculate_overlap_percent as a function of two bbox dicts;          *)
(*   - the colour extractor of app/services/shared/color_analysis.py.      *)
(*                                                                         *)
(* Conventions.                                                            *)
(*   Detector coordinates are floats in the source; they are modelled in   *)
(*   half pixels (the value 81 stands for 40.5) and int() truncates them.  *)
(*   Python lists are 0-based, sequences here are 1-based.                 *)
(*   A percentage is kept as an exact fraction [num, den]; the rounding of *)
(*   the IEEE quotient is not modelled.                                    *)
(***************************************************************************)
EXTENDS Integers, Sequences, FiniteSets, TLC

VARIABLES
    pc,                      \* position in process_manga_ocr / process_image
    original_width,
    original_height,
    min_region_width,
    min_region_height,
    overlap_allowed_percent,
    target_width,            \* 0 while no padded canvas exists
    target_height,
    padding_x,
    padding_y,
    temp_padded_file,        \* TRUE iff temp_padded_file is not None
    yolo_image_path,         \* which file the detector is given
    detections,              \* detection_result["detections"]
    filtered_detections,
    regions_to_remove,
    final_detections,
    ov_bbox1,                \* arguments and result of a direct call of
    ov_bbox2,                \*   calculate_overlap_percent
    ov_result,
    CUPY_AVAILABLE,          \* color_analysis.CUPY_AVAILABLE
    cv2_available,           \* "cv2 is not None"
    extractor,               \* configuration of the _GPUColorExtractor in use
    last_backend,            \* extractor.last_backend
    gpu_pool,                \* state of CuPy's default memory pool
    fault,                   \* the numeric-library call that fails, if any
    caller,                  \* who called extract_colors
    efb_args,                \* arguments of extract_foreground_background_colors
    region_array,
    mask_array,
    ec,                      \* local variables of extract_colors
    km,                      \* local variables of _kmeans_numpy
    colors,                  \* value returned by extract_colors
    raised,                  \* exception leaving extract_colors, "" if none
    efb_result,   \* value returned to the OCR pipeline
    thread_pc,               \* position of each thread in _get_color_extractor
    COLOR_EXTRACTOR_LOCK,    \* 0 when free, else the thread that holds it
    COLOR_EXTRACTOR,         \* 0 for None, else the instance published
    constructed,             \* number of _GPUColorExtractor instances built
    new_instance,            \* per thread: instance built, not yet assigned
    returned_instance,       \* per thread: what the last finished call returned
    ch_colors,               \* argument of a call of _choose_background_foreground
    ch_result,               \* <<background, foreground>> it returned, <<>> before
    variant,                 \* "service" (MangaOCR/server.py) or "webserver"
    region_events,           \* per region handled in Step 4: what OCR and colour did
    text_objects,            \* text_objects / ocr_results built so far
    response,   \* "" until the request is answered
    dd_i,                    \* pivot index i of the overlap loop, 1-based
    dd_j,                    \* partner index j
    comparisons,             \* the overlap comparisons made so far, in order
    MODEL_PATH_exists,       \* whether the weight file _MODEL_PATH is on disk
    MODEL_HANDLE,            \* _MODEL_HANDLE: "None" or the loaded model
    temp_files,              \* the temporary files of the request that are on disk
    rq,                      \* the request being served and its locals
    served                   \* the answers given so far

pipeData == <<original_width, original_height, min_region_width,
              min_region_height, overlap_allowed_percent, target_width,
              target_height, padding_x, padding_y, temp_padded_file,
              yolo_image_path, detections, filtered_detections,
              regions_to_remove, final_detections>>

pipeVars == <<pc, pipeData>>

ovVars == <<ov_bbox1, ov_bbox2, ov_result>>

colorEnv == <<CUPY_AVAILABLE, cv2_available, extractor, fault, caller, efb_args>>

colorVars == <<colorEnv, last_backend, gpu_pool, region_array, mask_array, ec,
               km, colors, raised, efb_result>>

singletonVars == <<thread_pc, COLOR_EXTRACTOR_LOCK, COLOR_EXTRACTOR, constructed,
                   new_instance, returned_instance>>

chooserVars == <<ch_colors, ch_result>>

ocrVars == <<variant, region_events, text_objects, response>>

dedupVars == <<dd_i, dd_j, comparisons>>

requestVars == <<MODEL_PATH_exists, MODEL_HANDLE, temp_files, rq, served>>

vars == <<pipeVars, ovVars, colorVars, singletonVars, chooserVars, ocrVars, dedupVars, requestVars>>

-----------------------------------------------------------------------------
(* Bounds and program constants *)

MaxDetections == 3

MIN_DIMENSION_FOR_YOLO == 640

\* image sizes (width, height) offered to the pipeline
ImageSizes == { <<600, 600>>, <<639, 640>>, <<620, 650>>, <<640, 700>>, <<700, 611>> }

\* (min_region_width, min_region_height, overlap_allowed_percent) of a request
RequestParams == { <<10, 10, 50>>, <<10, 10, 0>>, <<1, 1, 99>>, <<10, 10, 100>> }

\* a detector box in half pixels
Box(x1, y1, x2, y2) == [x_min |-> x1, y_min |-> y1, x_max |-> x2, y_max |-> y2]

\* what the detector may report for one region (label, bbox in half pixels)
DetectorOutputs ==
    { [label |-> "text",  bbox |-> Box(60, 60, 260, 260)],      \* large
      [label |-> "text",  bbox |-> Box(80, 100, 160, 200)],     \* inside large
      [label |-> "text",  bbox |-> Box(160, 60, 360, 260)],     \* half over large
      [label |-> "text",  bbox |-> Box(81, 101, 161, 201)],     \* 40.5 .. 80.5
      [label |-> "text",  bbox |-> Box(0, 60, 30, 260)],        \* left border
      [label |-> "text",  bbox |-> Box(0, 0, 30, 30)],          \* corner
      [label |-> "text",  bbox |-> Box(1240, 60, 1280, 260)],   \* right border
      [label |-> "text",  bbox |-> Box(100, 100, 110, 110)],    \* narrow
      [label |-> "frame", bbox |-> Box(60, 60, 260, 260)] }

-----------------------------------------------------------------------------
(* Pure helpers *)

Max(a, b) == IF a >= b THEN a ELSE b
Min(a, b) == IF a <= b THEN a ELSE b

\* int(v) of a float given in half pixels: truncation toward zero
int(v) == IF v >= 0 THEN v \div 2 ELSE -((-v) \div 2)

\* a percentage as an exact fraction
Percent(n, d) == [num |-> n, den |-> d]
ZeroPercent == Percent(0, 1)

\* variant: ">=" in place of ">"
Exceeds_OrEqual(p, allowed) ==
    IF p.den > 0 THEN p.num >= allowed * p.den
                 ELSE p.num <= allowed * p.den

\* overlap_percent > overlap_allowed_percent
Exceeds(p, allowed) ==
    IF p.den > 0 THEN p.num > allowed * p.den
                 ELSE p.num < allowed * p.den

\* variant: normalised by the larger area
calculate_overlap_percent_larger(bbox1, bbox2) ==
    LET x_overlap == Max(0, Min(bbox1.x_max, bbox2.x_max) - Max(bbox1.x_min, bbox2.x_min))
        y_overlap == Max(0, Min(bbox1.y_max, bbox2.y_max) - Max(bbox1.y_min, bbox2.y_min))
        intersection_area == x_overlap * y_overlap
        larger_area == Max(bbox1.area, bbox2.area)
    IN  IF intersection_area = 0 THEN ZeroPercent
        ELSE IF larger_area = 0 THEN ZeroPercent
        ELSE Percent(intersection_area * 100, larger_area)

calculate_overlap_percent(bbox1, bbox2) ==
    LET x_overlap == Max(0, Min(bbox1.x_max, bbox2.x_max) - Max(bbox1.x_min, bbox2.x_min))
        y_overlap == Max(0, Min(bbox1.y_max, bbox2.y_max) - Max(bbox1.y_min, bbox2.y_min))
        intersection_area == x_overlap * y_overlap
        smaller_area == Min(bbox1.area, bbox2.area)
    IN  IF intersection_area = 0 THEN ZeroPercent
        ELSE IF smaller_area = 0 THEN ZeroPercent
        ELSE Percent(intersection_area * 100, smaller_area)

-----------------------------------------------------------------------------
(* Step 1: letterbox padding (server.py 171-191, process_image 149-179) *)

\* variant: "and" in place of "or"
NeedsPadding_Both(w, h) == w < MIN_DIMENSION_FOR_YOLO /\ h < MIN_DIMENSION_FOR_YOLO

NeedsPadding(w, h) == w < MIN_DIMENSION_FOR_YOLO \/ h < MIN_DIMENSION_FOR_YOLO

TargetSize(d) == Max(d, MIN_DIMENSION_FOR_YOLO)

PaddingOffset(target, original) == (target - original) \div 2

\* padded_image.paste(image, (padding_x, padding_y)): where pixel v of the
\* original lands on the canvas
Paste(v, offset) == v + offset

-----------------------------------------------------------------------------
(* Step 2: translate back, size filter, clip (server.py 210-251) *)

\* variant: "and" in place of "or"
PaddingApplied_Both(px, py) == px > 0 /\ py > 0

\* "if padding_x > 0 or padding_y > 0": both coordinates are shifted together
PaddingApplied(px, py) == px > 0 \/ py > 0

Unpad(v, offset, px, py) == IF PaddingApplied(px, py) THEN v - offset ELSE v

TooSmall(x_min, y_min, x_max, y_max, min_w, min_h) ==
    (x_max - x_min) < min_w \/ (y_max - y_min) < min_h

ClipLow(v) == Max(0, v)
ClipHigh(limit, v) == Min(limit, v)

Region(detection, x_min, y_min, x_max, y_max) ==
    [detection |-> detection,
     x_min |-> x_min, y_min |-> y_min, x_max |-> x_max, y_max |-> y_max,
     width |-> x_max - x_min, height |-> y_max - y_min,
     area |-> (x_max - x_min) * (y_max - y_min)]

\* the body of the Step 2 loop for one detection: <<>> when it is skipped
FilterOne(detection, px, py, ow, oh, min_w, min_h) ==
    IF detection.label # "text" THEN <<>>
    ELSE
      LET x_min == Unpad(int(detection.bbox.x_min), px, px, py)
          y_min == Unpad(int(detection.bbox.y_min), py, px, py)
          x_max == Unpad(int(detection.bbox.x_max), px, px, py)
          y_max == Unpad(int(detection.bbox.y_max), py, px, py)
      IN  IF TooSmall(x_min, y_min, x_max, y_max, min_w, min_h) THEN <<>>
          ELSE << Region(detection, ClipLow(x_min), ClipLow(y_min),
                         ClipHigh(ow, x_max), ClipHigh(oh, y_max)) >>

RECURSIVE FilterBySize(_, _, _, _, _, _, _)
FilterBySize(ds, px, py, ow, oh, min_w, min_h) ==
    IF ds = <<>> THEN <<>>
    ELSE FilterOne(Head(ds), px, py, ow, oh, min_w, min_h)
         \o FilterBySize(Tail(ds), px, py, ow, oh, min_w, min_h)

-----------------------------------------------------------------------------
(* Step 3: remove overlapping regions (server.py 255-278) *)

\* variant: ">" in place of "<"
PivotIsSmaller_Reversed(bbox1, bbox2) == bbox1.area > bbox2.area

\* "if bbox1['area'] < bbox2['area']": the pivot i is the one removed
PivotIsSmaller(bbox1, bbox2) == bbox1.area < bbox2.area

\* variant: "break" after either removal
RECURSIVE InnerLoop_BreakAlways(_, _, _, _, _)
InnerLoop_BreakAlways(L, i, j, removed, allowed) ==
    IF j > Len(L) THEN removed
    ELSE IF j \in removed THEN InnerLoop_BreakAlways(L, i, j + 1, removed, allowed)
    ELSE IF Exceeds(calculate_overlap_percent(L[i], L[j]), allowed)
         THEN IF PivotIsSmaller(L[i], L[j])
              THEN removed \cup {i}
              ELSE removed \cup {j}
         ELSE InnerLoop_BreakAlways(L, i, j + 1, removed, allowed)

\* the inner loop "for j in range(i + 1, len(...))" from position j on
RECURSIVE InnerLoop(_, _, _, _, _)
InnerLoop(L, i, j, removed, allowed) ==
    IF j > Len(L) THEN removed
    ELSE IF j \in removed THEN InnerLoop(L, i, j + 1, removed, allowed)
    ELSE IF Exceeds(calculate_overlap_percent(L[i], L[j]), allowed)
         THEN IF PivotIsSmaller(L[i], L[j])
              THEN removed \cup {i}                                   \* break
              ELSE InnerLoop(L, i, j + 1, removed \cup {j}, allowed)
         ELSE InnerLoop(L, i, j + 1, removed, allowed)

\* the outer loop "for i in range(len(...))" from position i on
RECURSIVE OuterLoop(_, _, _, _)
OuterLoop(L, i, removed, allowed) ==
    IF i > Len(L) THEN removed
    ELSE IF i \in removed THEN OuterLoop(L, i + 1, removed, allowed)
    ELSE OuterLoop(L, i + 1, InnerLoop(L, i, i + 1, removed, allowed), allowed)

RegionsToRemove(L, allowed) == OuterLoop(L, 1, {}, allowed)

\* [d for i, d in enumerate(L) if i not in removed]
RECURSIVE KeepFrom(_, _, _)
KeepFrom(L, i, removed) ==
    IF i > Len(L) THEN <<>>
    ELSE (IF i \in removed THEN <<>> ELSE <<L[i]>>) \o KeepFrom(L, i + 1, removed)

FinalDetections(L, removed) == KeepFrom(L, 1, removed)

\* the overlap filter as a function of its input list
Dedup(L, allowed) == FinalDetections(L, RegionsToRemove(L, allowed))

-----------------------------------------------------------------------------
(* Colour extraction, data and pure steps (shared/color_analysis.py)        *)
(*                                                                          *)
(* Pixels are greys: the number g stands for the RGB triple (g, g, g), so a *)
(* feature vector lies on one line and is kept as its coordinate on that    *)
(* line, in hundredths.  A centroid is the exact mean [sum, cnt] of feature *)
(* coordinates.  Weights are exact fractions num[i] / den.                  *)

Greys == {0, 128, 255}

None == [none |-> TRUE]

\* a mask argument that is an array
MaskOf(data) == [none |-> FALSE, data |-> data]

\* _rgb_to_lab_array on a grey gives (L, 0, 0); L in hundredths
rgb_to_lab_array(g) ==
    CASE g = 0 -> 0 [] g = 64 -> 2709 [] g = 128 -> 5359 [] OTHER -> 10000

\* _GPUColorExtractor.__init__ (edge_bias in hundredths)
GPUColorExtractor(n_colors, lab_space, use_gpu, edge_bias, max_iter, max_samples_gpu, max_samples_cpu, min_pixels_for_gpu) ==
    [n_colors |-> Max(1, n_colors),
     lab_space |-> lab_space,
     use_gpu |-> use_gpu,
     edge_bias |-> Max(5, Min(edge_bias, 100)),
     max_iter |-> Max(5, max_iter),
     max_samples_gpu |-> max_samples_gpu,
     max_samples_cpu |-> max_samples_cpu,
     min_pixels_for_gpu |-> Max(1, min_pixels_for_gpu)]

\* the instance _get_color_extractor builds, and other instances of the class
SingletonExtractor == GPUColorExtractor(4, TRUE, "auto", 40, 20, 150000, 40000, 1500)

ExtractorConfigs ==
    { SingletonExtractor,
      GPUColorExtractor(2, FALSE, "force", 40, 0, 3, 2, 0),
      GPUColorExtractor(0, TRUE, "never", 100, 5, 0, 0, 1),
      GPUColorExtractor(3, FALSE, "auto", 1, 5, 4, 3, 4),
      GPUColorExtractor(3, FALSE, "yes", 40, 5, 0, 0, 4),
      GPUColorExtractor(1, TRUE, "false", 40, 5, 0, 0, 1),
      GPUColorExtractor(4, FALSE, "never", 40, 3, 0, 0, 1) }

should_use_gpu_NoThreshold(self, pixel_count) ==
    CUPY_AVAILABLE /\ self.use_gpu \in {"force", "auto", "true", "yes"}

\* _should_use_gpu; self.use_gpu is given already lower-cased ("true" and
\* "false" stand for the booleans)
should_use_gpu(self, pixel_count) ==
    IF ~CUPY_AVAILABLE THEN FALSE
    ELSE IF self.use_gpu = "never" THEN FALSE
    ELSE IF self.use_gpu = "force" THEN TRUE
    ELSE IF self.use_gpu \in {"auto", "true", "yes"}
         THEN pixel_count >= self.min_pixels_for_gpu
    ELSE FALSE

\* numpy: a.reshape(-1, 3) has size/3 rows, or fails when 3 does not divide size
ReshapeRows(ra) ==
    IF (ra.height * ra.width * ra.channels) % 3 = 0
    THEN (ra.height * ra.width * ra.channels) \div 3
    ELSE -1

\* mask_bool of _prepare_pixels, flattened
MaskBool(ra, mask) ==
    IF mask.none THEN [i \in 1 .. ra.height * ra.width |-> TRUE]
    ELSE [i \in 1 .. Len(mask.data) |-> mask.data[i] > 0]

RECURSIVE SelectMasked(_, _, _)
SelectMasked(data, flat_mask, i) ==
    IF i > Len(data) THEN <<>>
    ELSE (IF flat_mask[i] THEN <<data[i]>> ELSE <<>>) \o SelectMasked(data, flat_mask, i + 1)

\* the exception _prepare_pixels raises on these arguments, "" if none
PrepareRaises(ra, mask) ==
    LET flat_mask == MaskBool(ra, mask)
    IN  IF \A i \in DOMAIN flat_mask : ~flat_mask[i] THEN ""
        ELSE IF ReshapeRows(ra) = -1 THEN "ValueError"
        ELSE IF ReshapeRows(ra) # Len(flat_mask) THEN "IndexError"
        ELSE ""

\* what cv2.erode / threshold / distanceTransform may report about pixel i of
\* the masked pixels: whether it is a boundary pixel and its distance (0 or 1)
\* from the presumed text pixels
EdgePatterns == {"no_edges", "odd_edges", "all_edges"}
FarPatterns == {"no_decay", "even_far"}

IsEdge(pat, i) == (pat = "all_edges") \/ (pat = "odd_edges" /\ i % 2 = 1)
IsFar(pat, i) == pat = "even_far" /\ i % 2 = 0

\* weight of masked pixel i before the final rescaling, in units of 1/200:
\* 1.0, times edge_bias on the boundary, times 1 / (1 + distance)
RawWeight(self, edges, far, i) ==
    LET w == IF IsEdge(edges, i) THEN self.edge_bias ELSE 100
    IN  IF IsFar(far, i) THEN w ELSE 2 * w

RECURSIVE SumSeq(_)
SumSeq(q) == IF q = <<>> THEN 0 ELSE Head(q) + SumSeq(Tail(q))

\* _prepare_pixels: None, or (pixels, features, weights)
prepare_pixels(self, ra, mask, use_cv2, edges, far) ==
    LET flat_mask == MaskBool(ra, mask)
        pixels == SelectMasked(ra.data, flat_mask, 1)
        raw == [i \in 1 .. Len(pixels) |->
                   IF ~mask.none /\ use_cv2 THEN RawWeight(self, edges, far, i) ELSE 200]
        total_weight == SumSeq(raw)
    IN  IF \A i \in DOMAIN flat_mask : ~flat_mask[i] THEN None
        ELSE IF Len(pixels) = 0 THEN None
        ELSE [none |-> FALSE,
              pixels |-> pixels,
              features |-> [i \in 1 .. Len(pixels) |->
                               IF self.lab_space THEN rgb_to_lab_array(pixels[i])
                                                 ELSE pixels[i] * 100],
              weights |-> IF total_weight > 0
                          THEN [num |-> [i \in 1 .. Len(pixels) |-> raw[i] * Len(pixels)],
                                den |-> total_weight]
                          ELSE [num |-> raw, den |-> 200]]

\* _select_sample_indices: the budget, and whether a sample is drawn
SampleLimit(self, use_gpu) ==
    IF use_gpu THEN self.max_samples_gpu ELSE self.max_samples_cpu

SampleDrawn(self, total_pixels, use_gpu) ==
    ~(SampleLimit(self, use_gpu) <= 0 \/ total_pixels <= SampleLimit(self, use_gpu))

\* np.random.choice(n, k, replace=False): k distinct indices in some order
Arrangements(n, k) ==
    { q \in [1 .. k -> 1 .. n] : \A a, b \in 1 .. k : a # b => q[a] # q[b] }

Gather(data, idx) == [i \in 1 .. Len(idx) |-> data[idx[i]]]

SeqRange(q) == { q[i] : i \in 1 .. Len(q) }

\* min(self.n_colors, np.unique(sample_pixels, axis=0).shape[0])
ClusterCount(self, sample_pixels) ==
    Min(self.n_colors, Cardinality(SeqRange(sample_pixels)))

\* --- _kmeans_numpy ---------------------------------------------------------

PointCentroid(f) == [sum |-> f, cnt |-> 1]

Abs(a) == IF a >= 0 THEN a ELSE -a

\* squared distance from f to centroid c1 is smaller than to c2
Closer(f, c1, c2) ==
    Abs(f * c1.cnt - c1.sum) * c2.cnt < Abs(f * c2.cnt - c2.sum) * c1.cnt

\* distances.argmin(axis=1): the first of the nearest centroids
Nearest(f, centroids) ==
    CHOOSE k \in 1 .. Len(centroids) :
        \A m \in 1 .. Len(centroids) :
            /\ m < k => Closer(f, centroids[k], centroids[m])
            /\ m > k => ~Closer(f, centroids[m], centroids[k])

AssignLabels(features, centroids) ==
    [i \in 1 .. Len(features) |-> Nearest(features[i], centroids)]

RECURSIVE SumWhere(_, _, _, _)
SumWhere(values, labels, idx, i) ==
    IF i > Len(values) THEN 0
    ELSE (IF labels[i] = idx THEN values[i] ELSE 0) + SumWhere(values, labels, idx, i + 1)

Members(labels, idx) == { i \in 1 .. Len(labels) : labels[i] = idx }

\* the centroid update of one iteration; reseed[idx] is the index drawn by
\* rng.integers for cluster idx (used only when the cluster is empty)
UpdateCentroids(data, labels, cluster_count, reseed) ==
    [idx \in 1 .. cluster_count |->
        IF Members(labels, idx) = {}
        THEN PointCentroid(data[reseed[idx]])
        ELSE [sum |-> SumWhere(data, labels, idx, 1),
              cnt |-> Cardinality(Members(labels, idx))]]

\* --- _aggregate_results ----------------------------------------------------

\* round(n / d) to the nearest integer, halves to even (n >= 0, d > 0)
RoundHalfEven(n, d) ==
    LET q == n \div d
        r == n % d
    IN  IF 2 * r < d THEN q
        ELSE IF 2 * r > d THEN q + 1
        ELSE IF q % 2 = 0 THEN q ELSE q + 1

RECURSIVE SortDescending_Ascending(_, _)
SortDescending_Ascending(S, key) ==
    IF S = {} THEN <<>>
    ELSE LET m == CHOOSE a \in S :
                     \A b \in S : key[a] < key[b] \/ (key[a] = key[b] /\ a <= b)
         IN  <<m>> \o SortDescending_Ascending(S \ {m}, key)

\* np.argsort(-counts) on at most a few entries: descending, ties in index order
RECURSIVE SortDescending(_, _)
SortDescending(S, key) ==
    IF S = {} THEN <<>>
    ELSE LET m == CHOOSE a \in S :
                     \A b \in S : key[a] > key[b] \/ (key[a] = key[b] /\ a <= b)
         IN  <<m>> \o SortDescending(S \ {m}, key)

Grey(g) == <<g, g, g>>

\* counts (numerators over weights.den) per cluster
ClusterWeights(labels, cluster_count, weights) ==
    [idx \in 1 .. cluster_count |-> SumWhere(weights.num, labels, idx, 1)]

\* one entry of the result; percentage in tenths
ColorEntry(pixels, labels, weights, counts, total_weight, idx) ==
    LET accum == SumWhere([i \in 1 .. Len(pixels) |-> pixels[i] * weights.num[i]],
                          labels, idx, 1)
    IN  [rgb |-> Grey(Max(0, Min(255, RoundHalfEven(accum, counts[idx])))),
         percentage |-> RoundHalfEven(counts[idx] * 1000, total_weight)]

RECURSIVE EntriesInOrder(_, _, _, _, _, _)
EntriesInOrder(order, pixels, labels, weights, counts, total_weight) ==
    IF order = <<>> THEN <<>>
    ELSE (IF counts[Head(order)] <= 0 THEN <<>>
          ELSE << ColorEntry(pixels, labels, weights, counts, total_weight, Head(order)) >>)
         \o EntriesInOrder(Tail(order), pixels, labels, weights, counts, total_weight)

aggregate_results(pixels, labels, cluster_count, weights) ==
    LET counts == ClusterWeights(labels, cluster_count, weights)
        total_weight == SumSeq(counts)
    IN  IF cluster_count = 0 THEN <<>>
        ELSE IF total_weight <= 0 THEN <<>>
        ELSE EntriesInOrder(SortDescending(1 .. cluster_count, counts),
                            pixels, labels, weights, counts, total_weight)

\* --- _choose_background_foreground and the tail of -------------------------
\* --- extract_foreground_background_colors ----------------------------------

\* brightness in ten-thousandths
Brightness(rgb) == 2126 * rgb[1] + 7152 * rgb[2] + 722 * rgb[3]

Saturation(rgb) ==
    Max(rgb[1], Max(rgb[2], rgb[3])) - Min(rgb[1], Min(rgb[2], rgb[3]))

DistanceSq_RedOnly(a, b) == (a[1] - b[1]) * (a[1] - b[1])

\* squared Euclidean distance of two RGB triples
DistanceSq(a, b) ==
    (a[1] - b[1]) * (a[1] - b[1]) + (a[2] - b[2]) * (a[2] - b[2])
        + (a[3] - b[3]) * (a[3] - b[3])

\* (a1, a2) < (b1, b2) in lexicographic order
LexLess(a1, a2, b1, b2) == a1 < b1 \/ (a1 = b1 /\ a2 < b2)

\* Python's max(candidates, key=...): the first candidate with a maximal key
FirstMax(S, k1, k2) ==
    CHOOSE a \in S :
        /\ \A b \in S : ~LexLess(k1[a], k2[a], k1[b], k2[b])
        /\ \A b \in S : (b < a) => LexLess(k1[b], k2[b], k1[a], k2[a])

\* sorted(..., key=percentage, reverse=True)[0]: first entry of largest percentage
TopIndex(cs) ==
    CHOOSE a \in 1 .. Len(cs) :
        /\ \A b \in 1 .. Len(cs) : cs[b].percentage <= cs[a].percentage
        /\ \A b \in 1 .. Len(cs) : (b < a) => cs[b].percentage < cs[a].percentage

BackgroundIndex_TopOnly(cs) == TopIndex(cs)

\* lines 499-524: bright candidates first, then the dark-top exception
BackgroundIndex(cs) ==
    LET idxs == 1 .. Len(cs)
        pct == [i \in idxs |-> cs[i].percentage]
        bri == [i \in idxs |-> Brightness(cs[i].rgb)]
        top == TopIndex(cs)
        bright_candidates ==
            { i \in idxs : pct[i] >= 120 /\ bri[i] >= 2000000 /\ Saturation(cs[i].rgb) <= 45 }
        alt_candidates ==
            { i \in idxs : i # top /\ pct[i] >= 150 /\ Abs(bri[i] - bri[top]) >= 600000 }
    IN  IF bright_candidates # {} THEN FirstMax(bright_candidates, pct, bri)
        ELSE IF bri[top] < 1300000 /\ alt_candidates # {}
             THEN FirstMax(alt_candidates, bri, pct)
        ELSE top

ForegroundIndex_Background(cs, background_idx) == background_idx

ForegroundIndex(cs, background_idx) ==
    LET others == (1 .. Len(cs)) \ {background_idx}
        dist == [i \in 1 .. Len(cs) |-> DistanceSq(cs[i].rgb, cs[background_idx].rgb)]
        zero == [i \in 1 .. Len(cs) |-> 0]
    IN  IF others = {} THEN background_idx
        ELSE FirstMax(others, dist, zero)

choose_background_foreground_NoneForSingle(cs) ==
    IF cs = <<>> THEN <<None, None>>
    ELSE << cs[BackgroundIndex(cs)],
            IF Len(cs) = 1 THEN None ELSE cs[ForegroundIndex(cs, BackgroundIndex(cs))] >>

choose_background_foreground(cs) ==
    IF cs = <<>> THEN <<None, None>>
    ELSE << cs[BackgroundIndex(cs)], cs[ForegroundIndex(cs, BackgroundIndex(cs))] >>

\* [c for c in colors if c.get("percentage", 0)]
RECURSIVE DropZeroPercent(_)
DropZeroPercent(cs) ==
    IF cs = <<>> THEN <<>>
    ELSE (IF Head(cs).percentage # 0 THEN <<Head(cs)>> ELSE <<>>) \o DropZeroPercent(Tail(cs))

\* colors.sort(key=percentage, reverse=True): stable
RECURSIVE SortByPercentage(_, _)
SortByPercentage(cs, S) ==
    IF S = {} THEN <<>>
    ELSE LET m == CHOOSE a \in S :
                     \A b \in S : cs[a].percentage > cs[b].percentage
                                  \/ (cs[a].percentage = cs[b].percentage /\ a <= b)
         IN  <<cs[m]>> \o SortByPercentage(cs, S \ {m})

\* _format_color_entry on an entry that carries "rgb" and "percentage"
format_color_entry(color) ==
    [rgb |-> [i \in 1 .. 3 |-> Max(0, Min(255, color.rgb[i]))],
     percentage |-> color.percentage]

\* what extract_foreground_background_colors makes of the list it got back
ColorResult(cs) ==
    LET kept == DropZeroPercent(cs)
        sorted == SortByPercentage(kept, 1 .. Len(kept))
        pair == choose_background_foreground(sorted)
    IN  IF cs = <<>> THEN None
        ELSE IF kept = <<>> THEN None
        ELSE [none |-> FALSE,
              background_color |-> format_color_entry(pair[1]),
              foreground_color |-> format_color_entry(pair[2]),
              color_source |-> "ugtlive_gpu_kmeans"]

-----------------------------------------------------------------------------
(* The pipeline as a state machine *)

NoBox == [x_min |-> 0, y_min |-> 0, x_max |-> 0, y_max |-> 0, area |-> 0]

OvIdle == ov_bbox1 = NoBox /\ ov_bbox2 = NoBox /\ ov_result = ZeroPercent

NoRegionArray == [height |-> 0, width |-> 0, channels |-> 3, data |-> <<>>]

NoLocals ==
    [pixels |-> <<>>, features |-> <<>>, weights |-> [num |-> <<>>, den |-> 1],
     total_pixels |-> 0, use_gpu |-> FALSE, sample_pixels |-> <<>>,
     sample_features |-> <<>>, cluster_count |-> 0, labels |-> <<>>]

\* labels = <<>> stands for "labels is None"
NoKMeans == [centroids |-> <<>>, labels |-> <<>>, iter |-> 0]

NoArgs == [image |-> [width |-> 0, height |-> 0], polygon |-> <<>>, min_pixels |-> 0]

\* no call in progress, nothing returned yet
ColorCallFresh ==
    /\ gpu_pool = "empty"
    /\ region_array = NoRegionArray
    /\ mask_array = None
    /\ ec = NoLocals
    /\ km = NoKMeans
    /\ colors = <<>>
    /\ raised = ""
    /\ efb_result = None

ColorCallIdle == last_backend = "cpu" /\ ColorCallFresh

ColorIdle ==
    /\ CUPY_AVAILABLE = FALSE
    /\ cv2_available = FALSE
    /\ extractor = SingletonExtractor
    /\ fault = "none"
    /\ caller = "none"
    /\ efb_args = NoArgs
    /\ ColorCallIdle

MaxThreads == 3

Threads == 1 .. MaxThreads

\* no thread has called _get_color_extractor; _COLOR_EXTRACTOR is None
SingletonIdle ==
    /\ thread_pc = [t \in Threads |-> "idle"]
    /\ COLOR_EXTRACTOR_LOCK = 0
    /\ COLOR_EXTRACTOR = 0
    /\ constructed = 0
    /\ new_instance = [t \in Threads |-> 0]
    /\ returned_instance = [t \in Threads |-> 0]

ChooserIdle == ch_colors = <<>> /\ ch_result = <<>>

DedupIdle == dd_i = 0 /\ dd_j = 0 /\ comparisons = <<>>

NoRequest == [variant |-> "", small |-> FALSE, raises |-> "", padded |-> FALSE,
              file_seen |-> FALSE, exc |-> ""]

RequestIdle ==
    /\ MODEL_PATH_exists = FALSE
    /\ MODEL_HANDLE = "None"
    /\ temp_files = {}
    /\ rq = NoRequest
    /\ served = <<>>

OcrIdle ==
    /\ variant = "service"
    /\ region_events = <<>>
    /\ text_objects = <<>>
    /\ response = ""

PipeIdle ==
    /\ original_width = 0
    /\ original_height = 0
    /\ min_region_width = 0
    /\ min_region_height = 0
    /\ overlap_allowed_percent = 0
    /\ target_width = 0
    /\ target_height = 0
    /\ padding_x = 0
    /\ padding_y = 0
    /\ temp_padded_file = FALSE
    /\ yolo_image_path = "temp_image_path"
    /\ detections = <<>>
    /\ filtered_detections = <<>>
    /\ regions_to_remove = {}
    /\ final_detections = <<>>

Init ==
    /\ pc = "start"
    /\ \E size \in ImageSizes :
          /\ original_width = size[1]
          /\ original_height = size[2]
    /\ \E p \in RequestParams :
          /\ min_region_width = p[1]
          /\ min_region_height = p[2]
          /\ overlap_allowed_percent = p[3]
    /\ target_width = 0
    /\ target_height = 0
    /\ padding_x = 0
    /\ padding_y = 0
    /\ temp_padded_file = FALSE
    /\ yolo_image_path = "temp_image_path"
    /\ detections = <<>>
    /\ filtered_detections = <<>>
    /\ regions_to_remove = {}
    /\ final_detections = <<>>
    /\ OvIdle
    /\ ColorIdle
    /\ SingletonIdle
    /\ ChooserIdle
    /\ OcrIdle
    /\ DedupIdle
    /\ RequestIdle

\* Step 1 up to the detector call
Letterbox ==
    /\ pc = "start"
    /\ IF NeedsPadding(original_width, original_height)
       THEN /\ target_width' = TargetSize(original_width)
            /\ target_height' = TargetSize(original_height)
            /\ padding_x' = PaddingOffset(TargetSize(original_width), original_width)
            /\ padding_y' = PaddingOffset(TargetSize(original_height), original_height)
            /\ temp_padded_file' = TRUE
            /\ yolo_image_path' = "temp_padded_file"
       ELSE /\ UNCHANGED <<target_width, target_height, padding_x, padding_y,
                          temp_padded_file, yolo_image_path>>
    /\ pc' = "padded"
    /\ UNCHANGED <<original_width, original_height, min_region_width,
                   min_region_height, overlap_allowed_percent, detections,
                   filtered_detections, regions_to_remove, final_detections>>
    /\ UNCHANGED <<ovVars, colorVars, singletonVars, chooserVars, ocrVars, dedupVars, requestVars>>

\* detect_regions_from_path: an external detector, any list of boxes
RECURSIVE SeqsUpTo(_, _)
SeqsUpTo(S, n) ==
    IF n = 0 THEN { <<>> }
    ELSE SeqsUpTo(S, n - 1)
         \cup { Append(s, e) : s \in { t \in SeqsUpTo(S, n - 1) : Len(t) = n - 1 }, e \in S }

Detect ==
    /\ pc = "padded"
    /\ detections' \in SeqsUpTo(DetectorOutputs, MaxDetections)
    /\ pc' = "detected"
    /\ UNCHANGED <<original_width, original_height, min_region_width,
                   min_region_height, overlap_allowed_percent, target_width,
                   target_height, padding_x, padding_y, temp_padded_file,
                   yolo_image_path, filtered_detections, regions_to_remove,
                   final_detections>>
    /\ UNCHANGED <<ovVars, colorVars, singletonVars, chooserVars, ocrVars, dedupVars, requestVars>>

\* Step 2
SizeFilter ==
    /\ pc = "detected"
    /\ filtered_detections' =
          FilterBySize(detections, padding_x, padding_y, original_width,
                       original_height, min_region_width, min_region_height)
    /\ pc' = "filtered"
    /\ UNCHANGED <<original_width, original_height, min_region_width,
                   min_region_height, overlap_allowed_percent, target_width,
                   target_height, padding_x, padding_y, temp_padded_file,
                   yolo_image_path, detections, regions_to_remove,
                   final_detections>>
    /\ UNCHANGED <<ovVars, colorVars, singletonVars, chooserVars, ocrVars, dedupVars, requestVars>>

\* Step 3
OverlapFilter ==
    /\ pc = "filtered"
    /\ regions_to_remove' = RegionsToRemove(filtered_detections, overlap_allowed_percent)
    /\ final_detections' =
          FinalDetections(filtered_detections,
                          RegionsToRemove(filtered_detections, overlap_allowed_percent))
    /\ pc' = "deduped"
    /\ UNCHANGED <<original_width, original_height, min_region_width,
                   min_region_height, overlap_allowed_percent, target_width,
                   target_height, padding_x, padding_y, temp_padded_file,
                   yolo_image_path, detections, filtered_detections>>
    /\ UNCHANGED <<ovVars, colorVars, singletonVars, chooserVars, ocrVars, dedupVars, requestVars>>

Next == Letterbox \/ Detect \/ SizeFilter \/ OverlapFilter

Spec == Init /\ [][Next]_vars

-----------------------------------------------------------------------------
(* calculate_overlap_percent called directly on two bbox dicts whose "area"  *)
(* entry is whatever the caller stored                                       *)

OvCoords == {0, 2, 4}
OvAreas == {-4, 0, 4, 16}

OvBoxes ==
    { [x_min |-> x1, y_min |-> y1, x_max |-> x2, y_max |-> y2, area |-> a] :
        x1 \in OvCoords, y1 \in {0}, x2 \in OvCoords, y2 \in {0, 4}, a \in OvAreas }

\* a fraction with denominator 0 is the ZeroDivisionError of "a / 0"
DivisionError(p) == p.den = 0

InitOverlap ==
    /\ pc = "call"
    /\ PipeIdle
    /\ ColorIdle
    /\ SingletonIdle
    /\ ChooserIdle
    /\ OcrIdle
    /\ DedupIdle
    /\ RequestIdle
    /\ ov_bbox1 \in OvBoxes
    /\ ov_bbox2 \in OvBoxes
    /\ ov_result = ZeroPercent

CallOverlap ==
    /\ pc = "call"
    /\ ov_result' = calculate_overlap_percent(ov_bbox1, ov_bbox2)
    /\ pc' = "returned"
    /\ UNCHANGED <<ov_bbox1, ov_bbox2>>
    /\ UNCHANGED <<original_width, original_height, min_region_width,
                   min_region_height, overlap_allowed_percent, target_width,
                   target_height, padding_x, padding_y, temp_padded_file,
                   yolo_image_path, detections, filtered_detections,
                   regions_to_remove, final_detections>>
    /\ UNCHANGED <<colorVars, singletonVars, chooserVars, ocrVars, dedupVars, requestVars>>

NextOverlap == CallOverlap

SpecOverlap == InitOverlap /\ [][NextOverlap]_vars

-----------------------------------------------------------------------------
(* Colour extraction as a state machine: one call of                        *)
(* extract_foreground_background_colors (caller = "efb") or one direct call *)
(* of _GPUColorExtractor.extract_colors (caller = "direct")                 *)

MaxSide == 4

\* numeric-library calls that may fail during a call (out of memory, device
\* error), one per call at most
Faults == {"none", "gpu_kmeans", "gpu_later", "sampling", "cpu_kmeans", "assign", "aggregate"}

\* polygons in half pixels
Polygons ==
    { <<>>,
      << <<2, 2>> >>,
      << <<0, 0>>, <<8, 0>>, <<8, 2>>, <<0, 2>> >>,
      << <<2, 2>>, <<6, 2>>, <<6, 6>>, <<2, 6>> >>,
      << <<1, 1>>, <<5, 1>>, <<5, 7>>, <<1, 7>> >>,
      << <<-2, -2>>, <<10, -2>>, <<10, 10>>, <<-2, 10>> >> }

MinPixelsChoices == {3, 15}

\* image content, flattened row by row
PixelPatterns == {"white", "two_tone", "three_tone"}

PatternPixel(pat, i) ==
    CASE pat = "white" -> 255
      [] pat = "two_tone" -> (IF i % 4 = 0 THEN 0 ELSE 255)
      [] OTHER -> (IF i % 3 = 0 THEN 0 ELSE IF i % 3 = 1 THEN 255 ELSE 128)

PatternData(pat, n) == [i \in 1 .. n |-> PatternPixel(pat, i)]

\* masks ImageDraw may produce for a region of n pixels: the first m set
MaskCounts(n) == {0, 2, 3, 14, 15, n} \cap (0 .. n)

PrefixMask(n, m) == [i \in 1 .. n |-> IF i <= m THEN 255 ELSE 0]

\* arguments of a direct call of extract_colors
DirectInputs ==
    { [region_array |-> [height |-> 2, width |-> 2, channels |-> c, data |-> PatternData(pat, 4)],
       mask_array |-> m] :
          c \in {3, 4}, pat \in PixelPatterns,
          m \in { None, MaskOf(PrefixMask(4, 0)), MaskOf(PrefixMask(4, 3)),
                  MaskOf(PrefixMask(4, 4)), MaskOf(PrefixMask(6, 6)) } }
    \cup
    { [region_array |-> [height |-> 2, width |-> 3, channels |-> 3,
                        data |-> d],
       mask_array |-> None] :
          d \in { <<255, 255, 255, 255, 0, 128>>, <<0, 0, 0, 64, 128, 255>> } }

Floor(h) == h \div 2
Ceil(h) == (h + 1) \div 2

MinOf(S) == CHOOSE a \in S : \A b \in S : a <= b
MaxOf(S) == CHOOSE a \in S : \A b \in S : a >= b

\* bounding extent of the polygon clipped to the image (lines 646-652)
Extent(image, polygon) ==
    LET xs == { polygon[i][1] : i \in 1 .. Len(polygon) }
        ys == { polygon[i][2] : i \in 1 .. Len(polygon) }
    IN  [min_x |-> Max(Floor(MinOf(xs)), 0),
         min_y |-> Max(Floor(MinOf(ys)), 0),
         max_x |-> Min(Ceil(MaxOf(xs)), image.width),
         max_y |-> Min(Ceil(MaxOf(ys)), image.height)]

MaskTooSmall_Unscaled(mask_data, min_pixels) == SumSeq(mask_data) < min_pixels

\* "int(mask_array.sum()) < min_pixels * 255"
MaskTooSmall(mask_data, min_pixels) == SumSeq(mask_data) < min_pixels * 255

\* last_backend is what an earlier call on the same extractor left behind
InitColor ==
    /\ PipeIdle
    /\ OvIdle
    /\ SingletonIdle
    /\ ChooserIdle
    /\ OcrIdle
    /\ DedupIdle
    /\ RequestIdle
    /\ ColorCallFresh
    /\ CUPY_AVAILABLE \in BOOLEAN
    /\ last_backend \in (IF CUPY_AVAILABLE THEN {"cpu", "gpu"} ELSE {"cpu"})
    /\ cv2_available \in BOOLEAN
    /\ fault \in Faults
    /\ \/ /\ caller = "efb"
          /\ pc = "efb_entry"
          /\ extractor = SingletonExtractor
          /\ \E poly \in Polygons, mp \in MinPixelsChoices :
                efb_args = [image |-> [width |-> MaxSide, height |-> MaxSide],
                            polygon |-> poly, min_pixels |-> mp]
       \/ /\ caller = "direct"
          /\ pc = "direct_entry"
          /\ extractor \in ExtractorConfigs
          /\ efb_args = NoArgs

envUnchanged == UNCHANGED <<pipeData, ovVars, colorEnv, singletonVars, chooserVars, ocrVars, dedupVars, requestVars>>

\* extract_foreground_background_colors up to the call of extract_colors
\* (lines 636-674)
EfbGate ==
    /\ pc = "efb_entry"
    /\ caller = "efb"
    /\ IF efb_args.polygon = <<>>
       THEN /\ efb_result' = None
            /\ pc' = "efb_return"
            /\ UNCHANGED <<region_array, mask_array>>
       ELSE
         LET e == Extent(efb_args.image, efb_args.polygon)
             region_width == e.max_x - e.min_x
             region_height == e.max_y - e.min_y
         IN  IF region_width <= 1 \/ region_height <= 1
             THEN /\ efb_result' = None
                  /\ pc' = "efb_return"
                  /\ UNCHANGED <<region_array, mask_array>>
             ELSE \E pat \in PixelPatterns, m \in MaskCounts(region_width * region_height) :
                    /\ region_array' = [height |-> region_height, width |-> region_width,
                                        channels |-> 3,
                                        data |-> PatternData(pat, region_width * region_height)]
                    /\ mask_array' = MaskOf(PrefixMask(region_width * region_height, m))
                    /\ IF MaskTooSmall(PrefixMask(region_width * region_height, m),
                                       efb_args.min_pixels)
                       THEN efb_result' = None /\ pc' = "efb_return"
                       ELSE efb_result' = efb_result /\ pc' = "ec_entry"
    /\ UNCHANGED <<last_backend, gpu_pool, ec, km, colors, raised>>
    /\ envUnchanged

\* a direct call of extract_colors with arbitrary arrays
DirectCall ==
    /\ pc = "direct_entry"
    /\ caller = "direct"
    /\ \E inp \in DirectInputs :
          /\ region_array' = inp.region_array
          /\ mask_array' = inp.mask_array
    /\ pc' = "ec_entry"
    /\ UNCHANGED <<last_backend, gpu_pool, ec, km, colors, raised, efb_result>>
    /\ envUnchanged

\* extract_colors, lines 412-417: _prepare_pixels
EcPrepare ==
    /\ pc = "ec_entry"
    /\ IF PrepareRaises(region_array, mask_array) # ""
       THEN /\ raised' = PrepareRaises(region_array, mask_array)
            /\ pc' = "ec_raised"
            /\ UNCHANGED <<ec, colors>>
       ELSE \E edges \in EdgePatterns, far \in FarPatterns :
              LET prepared == prepare_pixels(extractor, region_array, mask_array,
                                             cv2_available, edges, far)
              IN  IF prepared.none
                  THEN /\ colors' = <<>>
                       /\ pc' = "ec_return"
                       /\ UNCHANGED <<ec, raised>>
                  ELSE /\ ec' = [ec EXCEPT !.pixels = prepared.pixels,
                                           !.features = prepared.features,
                                           !.weights = prepared.weights,
                                           !.total_pixels = Len(prepared.pixels)]
                       /\ pc' = "ec_select"
                       /\ UNCHANGED <<colors, raised>>
    /\ UNCHANGED <<last_backend, gpu_pool, region_array, mask_array, km, efb_result>>
    /\ envUnchanged

\* extract_colors, lines 419-437: backend choice, sampling, cluster count
EcSelect ==
    /\ pc = "ec_select"
    /\ LET use_gpu == should_use_gpu(extractor, ec.total_pixels)
           drawn == SampleDrawn(extractor, ec.total_pixels, use_gpu)
       IN  IF drawn /\ fault = "sampling"
           THEN /\ raised' = "Exception"
                /\ pc' = "ec_raised"
                /\ UNCHANGED <<ec, colors>>
           ELSE \E idx \in (IF drawn
                            THEN Arrangements(ec.total_pixels, SampleLimit(extractor, use_gpu))
                            ELSE { [i \in 1 .. ec.total_pixels |-> i] }) :
                  LET sample_pixels == Gather(ec.pixels, idx)
                      cluster_count == ClusterCount(extractor, sample_pixels)
                  IN  /\ ec' = [ec EXCEPT !.use_gpu = use_gpu,
                                          !.sample_pixels = sample_pixels,
                                          !.sample_features = Gather(ec.features, idx),
                                          !.cluster_count = cluster_count]
                      /\ IF cluster_count <= 0
                         THEN colors' = <<>> /\ pc' = "ec_return"
                         ELSE colors' = colors /\ pc' = (IF use_gpu THEN "ec_gpu" ELSE "ec_cpu")
                      /\ raised' = raised
    /\ UNCHANGED <<last_backend, gpu_pool, region_array, mask_array, km, efb_result>>
    /\ envUnchanged

\* data[rng.choice(data.shape[0], cluster_count, replace=False)]: the centroid
\* tuples that a choice of distinct rows can give
Occurrences(q, v) == Cardinality({ i \in 1 .. Len(q) : q[i] = v })

InitialCentroids(data, cluster_count) ==
    { [i \in 1 .. cluster_count |-> PointCentroid(t[i])] :
          t \in { u \in [1 .. cluster_count -> SeqRange(data)] :
                     \A v \in SeqRange(data) : Occurrences(u, v) <= Occurrences(data, v) } }

\* _extract_gpu, lines 333-405, and the except clause of extract_colors,
\* lines 442-451.  kmeans2 is library code: with minit="points" its centroids
\* are taken to be k of the sample points.
EcGpu ==
    /\ pc = "ec_gpu"
    /\ IF ~CUPY_AVAILABLE
       THEN /\ pc' = "ec_cpu"
            /\ UNCHANGED <<last_backend, gpu_pool, ec, colors>>
       ELSE
         LET cluster_count == Min(ec.cluster_count, Len(ec.sample_features))
         IN  IF cluster_count <= 0
             THEN /\ colors' = <<>>
                  /\ pc' = "ec_return"
                  /\ UNCHANGED <<last_backend, gpu_pool, ec>>
             ELSE IF fault \in {"gpu_kmeans", "gpu_later"}
             THEN /\ gpu_pool' = "in_use"
                  /\ ec' = [ec EXCEPT !.use_gpu = FALSE]
                  /\ pc' = "ec_cpu"
                  /\ UNCHANGED <<last_backend, colors>>
             ELSE \E centroids \in InitialCentroids(ec.sample_features, cluster_count) :
                    LET labels == AssignLabels(ec.features, centroids)
                    IN  /\ colors' = aggregate_results(ec.pixels, labels, cluster_count,
                                                       ec.weights)
                        /\ last_backend' = "gpu"
                        /\ gpu_pool' = "empty"
                        /\ ec' = [ec EXCEPT !.cluster_count = cluster_count,
                                                !.labels = labels]
                        /\ pc' = "ec_return"
    /\ UNCHANGED <<region_array, mask_array, km, raised, efb_result>>
    /\ envUnchanged

\* _extract_cpu, lines 308-317, with the start of _kmeans_numpy, lines 234-236
EcCpu ==
    /\ pc = "ec_cpu"
    /\ LET cluster_count == Min(ec.cluster_count, Len(ec.sample_features))
       IN  IF cluster_count <= 0
           THEN /\ colors' = <<>>
                /\ pc' = "ec_return"
                /\ UNCHANGED <<ec, km>>
           ELSE /\ ec' = [ec EXCEPT !.cluster_count = cluster_count]
                /\ colors' = colors
                /\ IF fault = "cpu_kmeans"
                   THEN /\ km' = [km EXCEPT !.centroids =
                                     [i \in 1 .. cluster_count |->
                                         PointCentroid(ec.sample_features[i])]]
                        /\ pc' = "ec_assign"
                   ELSE \E centroids \in InitialCentroids(ec.sample_features, cluster_count) :
                          /\ km' = [centroids |-> centroids, labels |-> <<>>, iter |-> 0]
                          /\ pc' = "km_loop"
    /\ UNCHANGED <<last_backend, gpu_pool, region_array, mask_array, raised, efb_result>>
    /\ envUnchanged

\* data[rng.integers(0, data.shape[0])]: one row index for each value a draw
\* can give
FirstRows(data) == { i \in 1 .. Len(data) : \A j \in 1 .. i - 1 : data[j] # data[i] }

EmptyClusters(labels, cluster_count) ==
    { idx \in 1 .. cluster_count : Members(labels, idx) = {} }

\* "for _ in range(self.max_iter)" has no pass left
LoopExhausted(self, iter) == iter >= self.max_iter

LabelsConverged_Never(labels, new_labels) == FALSE

\* labels is not None and np.array_equal(new_labels, labels)
LabelsConverged(labels, new_labels) == labels # <<>> /\ new_labels = labels

\* one pass of the loop of _kmeans_numpy, lines 238-253
KMeansIterate ==
    /\ pc = "km_loop"
    /\ IF LoopExhausted(extractor, km.iter)
       THEN pc' = "ec_assign" /\ km' = km
       ELSE
         LET new_labels == AssignLabels(ec.sample_features, km.centroids)
         IN  IF LabelsConverged(km.labels, new_labels)
             THEN pc' = "ec_assign" /\ km' = km
             ELSE \E reseed \in [EmptyClusters(new_labels, ec.cluster_count)
                                   -> FirstRows(ec.sample_features)] :
                    /\ km' = [centroids |-> UpdateCentroids(ec.sample_features, new_labels,
                                                            ec.cluster_count, reseed),
                              labels |-> new_labels,
                              iter |-> km.iter + 1]
                    /\ pc' = "km_loop"
    /\ UNCHANGED <<last_backend, gpu_pool, region_array, mask_array, ec, colors, raised,
                   efb_result>>
    /\ envUnchanged

BackendAfterCpu_Stale == last_backend

\* self.last_backend = "cpu"
BackendAfterCpu == "cpu"

\* _extract_cpu, lines 319-323: nothing here is inside a try
EcAssign ==
    /\ pc = "ec_assign"
    /\ IF fault = "assign"
       THEN /\ raised' = "Exception"
            /\ pc' = "ec_raised"
            /\ UNCHANGED <<last_backend, colors>>
       ELSE /\ last_backend' = BackendAfterCpu
            /\ IF fault = "aggregate"
               THEN /\ raised' = "Exception"
                    /\ pc' = "ec_raised"
                    /\ colors' = colors
               ELSE /\ colors' = aggregate_results(ec.pixels,
                                                   AssignLabels(ec.features, km.centroids),
                                                   ec.cluster_count, ec.weights)
                    /\ pc' = "ec_return"
                    /\ raised' = raised
    /\ ec' = [ec EXCEPT !.labels = IF fault = "assign" THEN <<>>
                                   ELSE AssignLabels(ec.features, km.centroids)]
    /\ UNCHANGED <<gpu_pool, region_array, mask_array, km, efb_result>>
    /\ envUnchanged

\* extract_foreground_background_colors after the call, lines 676-705
EfbAfter ==
    /\ caller = "efb"
    /\ pc \in {"ec_return", "ec_raised"}
    /\ efb_result' = (IF pc = "ec_raised" THEN None ELSE ColorResult(colors))
    /\ pc' = "efb_return"
    /\ UNCHANGED <<last_backend, gpu_pool, region_array, mask_array, ec, km, colors, raised>>
    /\ envUnchanged

NextColor ==
    \/ EfbGate
    \/ DirectCall
    \/ EcPrepare
    \/ EcSelect
    \/ EcGpu
    \/ EcCpu
    \/ KMeansIterate
    \/ EcAssign
    \/ EfbAfter

SpecColor == InitColor /\ [][NextColor]_vars

\* the calls followed to their end: from extract_foreground_background_colors
\* on the CPU, and directly, with and without CuPy, with a failing GPU k-means
\* or a failing aggregation, on the extractors with max_iter = 5
InitColorFair ==
    /\ InitColor
    /\ cv2_available
    /\ last_backend = "cpu"
    /\ fault \in {"none", "gpu_kmeans", "aggregate"}
    /\ caller = "efb" => efb_args.min_pixels = 3 /\ fault = "none" /\ ~CUPY_AVAILABLE
    /\ caller = "direct" => extractor.max_iter = 5 /\ extractor.use_gpu \in {"force", "never"}

\* the places of a call
ColorPlaces ==
    {"efb_entry", "direct_entry", "ec_entry", "ec_select", "ec_gpu", "ec_cpu", "km_loop",
     "ec_assign", "ec_return", "ec_raised", "efb_return"}

\* the call has not come back to its caller
Running ==
    /\ pc # "efb_return"
    /\ ~(caller = "direct" /\ pc \in {"ec_return", "ec_raised"})

\* the statement at pc, other than the k-means loop, completes and control
\* moves on
MoveOn == Running /\ pc # "km_loop" /\ pc' \in ColorPlaces /\ pc' # pc

\* a call runs in one thread and every statement of it completes: outside the
\* loop control moves on, and inside it a pass that can run does run (whether
\* the passes ever end is left to the loop)
SpecColorFair ==
    InitColorFair /\ [][NextColor]_vars /\ WF_pc(MoveOn) /\ WF_vars(KMeansIterate)

-----------------------------------------------------------------------------
(* _get_color_extractor called from several threads *)

LockFree_Always == TRUE

\* "with _COLOR_EXTRACTOR_LOCK:" can be entered
LockFree == COLOR_EXTRACTOR_LOCK = 0

InitSingleton ==
    /\ pc = "threads"
    /\ PipeIdle
    /\ OvIdle
    /\ ColorIdle
    /\ SingletonIdle
    /\ ChooserIdle
    /\ OcrIdle
    /\ DedupIdle
    /\ RequestIdle

singletonFrame == UNCHANGED <<pipeVars, ovVars, colorVars, chooserVars, ocrVars, dedupVars, requestVars>>

\* a thread calls _get_color_extractor (again)
Call(t) ==
    /\ thread_pc[t] \in {"idle", "returned"}
    /\ thread_pc' = [thread_pc EXCEPT ![t] = "lock"]
    /\ returned_instance' = [returned_instance EXCEPT ![t] = 0]
    /\ UNCHANGED <<COLOR_EXTRACTOR_LOCK, COLOR_EXTRACTOR, constructed, new_instance>>
    /\ singletonFrame

\* line 558
Acquire(t) ==
    /\ thread_pc[t] = "lock"
    /\ LockFree
    /\ COLOR_EXTRACTOR_LOCK' = t
    /\ thread_pc' = [thread_pc EXCEPT ![t] = "check"]
    /\ UNCHANGED <<COLOR_EXTRACTOR, constructed, new_instance, returned_instance>>
    /\ singletonFrame

\* line 559
CheckNone(t) ==
    /\ thread_pc[t] = "check"
    /\ thread_pc' = [thread_pc EXCEPT ![t] = IF COLOR_EXTRACTOR = 0 THEN "construct"
                                               ELSE "return"]
    /\ UNCHANGED <<COLOR_EXTRACTOR_LOCK, COLOR_EXTRACTOR, constructed, new_instance,
                   returned_instance>>
    /\ singletonFrame

\* lines 560-565, the constructor call
Construct(t) ==
    /\ thread_pc[t] = "construct"
    /\ constructed' = constructed + 1
    /\ new_instance' = [new_instance EXCEPT ![t] = constructed + 1]
    /\ thread_pc' = [thread_pc EXCEPT ![t] = "publish"]
    /\ UNCHANGED <<COLOR_EXTRACTOR_LOCK, COLOR_EXTRACTOR, returned_instance>>
    /\ singletonFrame

\* line 560, the assignment to the global
Publish(t) ==
    /\ thread_pc[t] = "publish"
    /\ COLOR_EXTRACTOR' = new_instance[t]
    /\ new_instance' = [new_instance EXCEPT ![t] = 0]
    /\ thread_pc' = [thread_pc EXCEPT ![t] = "return"]
    /\ UNCHANGED <<COLOR_EXTRACTOR_LOCK, constructed, returned_instance>>
    /\ singletonFrame

\* line 579: the global is read inside the with block, which then releases
Return(t) ==
    /\ thread_pc[t] = "return"
    /\ returned_instance' = [returned_instance EXCEPT ![t] = COLOR_EXTRACTOR]
    /\ COLOR_EXTRACTOR_LOCK' = IF COLOR_EXTRACTOR_LOCK = t THEN 0 ELSE COLOR_EXTRACTOR_LOCK
    /\ thread_pc' = [thread_pc EXCEPT ![t] = "returned"]
    /\ UNCHANGED <<COLOR_EXTRACTOR, constructed, new_instance>>
    /\ singletonFrame

NextSingleton ==
    \E t \in Threads :
        \/ Call(t)
        \/ Acquire(t)
        \/ CheckNone(t)
        \/ Construct(t)
        \/ Publish(t)
        \/ Return(t)

SpecSingleton == InitSingleton /\ [][NextSingleton]_vars

-----------------------------------------------------------------------------
(* Direct calls of _choose_background_foreground *)

MaxClusters == 3

\* black, dark grey, white, saturated yellow, cream
Palette ==
    { <<0, 0, 0>>, <<120, 120, 120>>, <<255, 255, 255>>, <<255, 255, 0>>, <<255, 240, 210>> }

\* percentages in tenths
PercentageChoices == {100, 120, 150, 600}

ClusterEntries == [rgb : Palette, percentage : PercentageChoices]

InitChooser ==
    /\ pc = "ch_call"
    /\ PipeIdle
    /\ OvIdle
    /\ ColorIdle
    /\ SingletonIdle
    /\ OcrIdle
    /\ DedupIdle
    /\ RequestIdle
    /\ ch_colors \in SeqsUpTo(ClusterEntries, MaxClusters)
    /\ ch_result = <<>>

CallChooser ==
    /\ pc = "ch_call"
    /\ ch_result' = choose_background_foreground(ch_colors)
    /\ pc' = "ch_returned"
    /\ UNCHANGED <<pipeData, ovVars, colorVars, singletonVars, ch_colors, ocrVars, dedupVars, requestVars>>

NextChooser == CallChooser

SpecChooser == InitChooser /\ [][NextChooser]_vars

-----------------------------------------------------------------------------
(* Step 4: OCR and colour extraction for every surviving region, and the   *)
(* answer to the request                                                    *)

\* regions as the overlap filter hands them on
OcrRegions ==
    { Region([label |-> "text", bbox |-> Box(120, 120, 520, 520)], 60, 60, 260, 260),
      Region([label |-> "text", bbox |-> Box(600, 120, 800, 320)], 300, 60, 400, 160) }

\* what manga_ocr does on one crop
OcrOutcomes == {"text", "empty", "raises"}

\* what extract_foreground_background_colors does for one region: a value it
\* returns, or an exception from one of its statements outside a try
EfbOutcomes ==
    { [raised |-> TRUE, value |-> None],
      [raised |-> FALSE, value |-> None],
      [raised |-> FALSE,
       value |-> ColorResult(<< [rgb |-> Grey(255), percentage |-> 900],
                                [rgb |-> Grey(0), percentage |-> 100] >>)] }

\* the dict appended for a region; color_info = None: no colour fields attached
TextObject(k, color_info) == [region |-> k, text |-> "text", color_info |-> color_info]

InitOcr ==
    /\ pc = "ocr"
    /\ original_width = 640
    /\ original_height = 640
    /\ min_region_width = 0
    /\ min_region_height = 0
    /\ overlap_allowed_percent = 0
    /\ target_width = 0
    /\ target_height = 0
    /\ padding_x = 0
    /\ padding_y = 0
    /\ temp_padded_file = FALSE
    /\ yolo_image_path = "temp_image_path"
    /\ detections = <<>>
    /\ filtered_detections = <<>>
    /\ regions_to_remove = {}
    /\ final_detections \in SeqsUpTo(OcrRegions, MaxDetections)
    /\ OvIdle
    /\ ColorIdle
    /\ SingletonIdle
    /\ ChooserIdle
    /\ DedupIdle
    /\ RequestIdle
    /\ variant \in {"service", "webserver"}
    /\ region_events = <<>>
    /\ text_objects = <<>>
    /\ response = ""

ocrFrame == UNCHANGED <<pipeData, ovVars, colorVars, singletonVars, chooserVars, dedupVars, requestVars, variant>>

\* one pass of the loop over final_detections
\* (server.py 284-332, process_image_mangaocr.py 322-390)
OcrRegion ==
    /\ pc = "ocr"
    /\ Len(region_events) < Len(final_detections)
    /\ \E ocr \in OcrOutcomes, color \in EfbOutcomes :
          LET k == Len(region_events) + 1
          IN  IF ocr # "text"
              THEN /\ region_events' = Append(region_events, [ocr |-> ocr, color |-> "not_called"])
                   /\ UNCHANGED <<text_objects, response, pc>>
              ELSE /\ region_events' =
                          Append(region_events,
                                 [ocr |-> ocr,
                                  color |-> IF color.raised THEN "raised"
                                            ELSE IF color.value.none THEN "none"
                                            ELSE "colors"])
                   /\ IF color.raised /\ variant = "webserver"
                      THEN /\ response' = "error"
                           /\ pc' = "responded"
                           /\ text_objects' = <<>>
                      ELSE /\ text_objects' =
                                  Append(text_objects,
                                         TextObject(k, IF color.raised THEN None
                                                       ELSE color.value))
                           /\ UNCHANGED <<response, pc>>
    /\ ocrFrame

\* "return text_objects" / the success dict
Respond ==
    /\ pc = "ocr"
    /\ Len(region_events) = Len(final_detections)
    /\ response' = "success"
    /\ pc' = "responded"
    /\ UNCHANGED <<region_events, text_objects>>
    /\ ocrFrame

NextOcr == OcrRegion \/ Respond

SpecOcr == InitOcr /\ [][NextOcr]_vars

-----------------------------------------------------------------------------
(* Step 3 one loop iteration at a time (server.py 256-277) *)

BreakAfterPivotRemoval_Missing == FALSE

\* line 273: "break" once the pivot itself was marked
BreakAfterPivotRemoval == TRUE

InitDedup ==
    /\ pc = "dedup_outer"
    /\ original_width = 640
    /\ original_height = 700
    /\ \E p \in RequestParams :
          /\ min_region_width = p[1]
          /\ min_region_height = p[2]
          /\ overlap_allowed_percent = p[3]
    /\ target_width = 0
    /\ target_height = 0
    /\ padding_x = 0
    /\ padding_y = 0
    /\ temp_padded_file = FALSE
    /\ yolo_image_path = "temp_image_path"
    /\ detections \in SeqsUpTo(DetectorOutputs, MaxDetections)
    /\ filtered_detections =
          FilterBySize(detections, padding_x, padding_y, original_width,
                       original_height, min_region_width, min_region_height)
    /\ regions_to_remove = {}
    /\ final_detections = <<>>
    /\ OvIdle
    /\ ColorIdle
    /\ SingletonIdle
    /\ ChooserIdle
    /\ OcrIdle
    /\ RequestIdle
    /\ dd_i = 1
    /\ dd_j = 0
    /\ comparisons = <<>>

dedupFrame ==
    UNCHANGED <<original_width, original_height, min_region_width, min_region_height,
                overlap_allowed_percent, target_width, target_height, padding_x,
                padding_y, temp_padded_file, yolo_image_path, detections,
                filtered_detections, ovVars, colorVars, singletonVars, chooserVars,
                ocrVars, requestVars>>

\* lines 257-260, and line 277 when the loop is over
DedupOuter ==
    /\ pc = "dedup_outer"
    /\ IF dd_i > Len(filtered_detections)
       THEN /\ final_detections' = FinalDetections(filtered_detections, regions_to_remove)
            /\ pc' = "deduped"
            /\ UNCHANGED <<dd_i, dd_j>>
       ELSE IF dd_i \in regions_to_remove
       THEN /\ dd_i' = dd_i + 1
            /\ UNCHANGED <<dd_j, final_detections, pc>>
       ELSE /\ dd_j' = dd_i + 1
            /\ pc' = "dedup_inner"
            /\ UNCHANGED <<dd_i, final_detections>>
    /\ UNCHANGED <<regions_to_remove, comparisons>>
    /\ dedupFrame

\* lines 262-275
DedupInner ==
    /\ pc = "dedup_inner"
    /\ IF dd_j > Len(filtered_detections)
       THEN /\ dd_i' = dd_i + 1
            /\ pc' = "dedup_outer"
            /\ UNCHANGED <<dd_j, regions_to_remove, comparisons>>
       ELSE IF dd_j \in regions_to_remove
       THEN /\ dd_j' = dd_j + 1
            /\ UNCHANGED <<dd_i, pc, regions_to_remove, comparisons>>
       ELSE /\ comparisons' = Append(comparisons,
                                     [i |-> dd_i, j |-> dd_j, removed |-> regions_to_remove])
            /\ IF Exceeds(calculate_overlap_percent(filtered_detections[dd_i],
                                                    filtered_detections[dd_j]),
                          overlap_allowed_percent)
               THEN IF PivotIsSmaller(filtered_detections[dd_i], filtered_detections[dd_j])
                    THEN /\ regions_to_remove' = regions_to_remove \cup {dd_i}
                         /\ IF BreakAfterPivotRemoval
                            THEN dd_i' = dd_i + 1 /\ pc' = "dedup_outer" /\ dd_j' = dd_j
                            ELSE dd_j' = dd_j + 1 /\ UNCHANGED <<dd_i, pc>>
                    ELSE /\ regions_to_remove' = regions_to_remove \cup {dd_j}
                         /\ dd_j' = dd_j + 1
                         /\ UNCHANGED <<dd_i, pc>>
               ELSE /\ dd_j' = dd_j + 1
                    /\ UNCHANGED <<dd_i, pc, regions_to_remove>>
    /\ UNCHANGED final_detections
    /\ dedupFrame

NextDedup == DedupOuter \/ DedupInner

SpecDedup == InitDedup /\ [][NextDedup]_vars

-----------------------------------------------------------------------------
(* Requests, the lazily loaded detector model and the temporary files      *)

MaxRequests == 2

\* the step of a request that raises: saving the image to its temporary file,
\* saving the padded image, model.predict, or Steps 2-4 outside the per-region
\* try
RequestFaults == {"none", "save_image", "save_padded", "predict", "later"}

ensure_model_CachesFirst(handle, exists) ==
    IF handle = "None"
    THEN [raised |-> ~exists, handle |-> "model"]
    ELSE [raised |-> FALSE, handle |-> handle]

\* _ensure_model: the value of _MODEL_HANDLE afterwards and whether
\* ModelNotFoundError was raised
ensure_model(handle, exists) ==
    IF handle = "None"
    THEN IF ~exists THEN [raised |-> TRUE, handle |-> "None"]
                    ELSE [raised |-> FALSE, handle |-> "model"]
    ELSE [raised |-> FALSE, handle |-> handle]

\* the outer finally of process_manga_ocr (lines 337-343); process_image of the
\* webserver reads the caller's file and has no temporary image
UnlinkTempImage(files) == files \ {"temp_image"}

\* the finally around the detection (lines 200-205 and 198-204)
UnlinkTempPadded(files) == files \ {"temp_padded"}

InitRequest ==
    /\ pc = "rq_idle"
    /\ PipeIdle
    /\ OvIdle
    /\ ColorIdle
    /\ SingletonIdle
    /\ ChooserIdle
    /\ OcrIdle
    /\ DedupIdle
    /\ MODEL_PATH_exists \in BOOLEAN
    /\ MODEL_HANDLE = "None"
    /\ temp_files = {}
    /\ rq = NoRequest
    /\ served = <<>>

requestFrame ==
    UNCHANGED <<pipeData, ovVars, colorVars, singletonVars, chooserVars, ocrVars, dedupVars>>

\* a request arrives: process_image of one of the two servers is called
Receive ==
    /\ pc = "rq_idle"
    /\ Len(served) < MaxRequests
    /\ \E v \in {"service", "webserver"}, small \in BOOLEAN, f \in RequestFaults :
          /\ (v = "webserver") => f # "save_image"
          /\ (f = "save_padded") => small
          /\ rq' = [NoRequest EXCEPT !.variant = v, !.small = small, !.raises = f]
    /\ pc' = "rq_temp"
    /\ UNCHANGED <<MODEL_PATH_exists, MODEL_HANDLE, temp_files, served>>
    /\ requestFrame

\* server.py 163-166: the temporary image file is created and written before
\* the try statement is entered
CreateTempImage ==
    /\ pc = "rq_temp"
    /\ IF rq.variant = "webserver"
       THEN /\ pc' = "rq_pad"
            /\ UNCHANGED <<temp_files, rq>>
       ELSE /\ temp_files' = temp_files \cup {"temp_image"}
            /\ IF rq.raises = "save_image"
               THEN rq' = [rq EXCEPT !.exc = "Exception"] /\ pc' = "rq_respond"
               ELSE rq' = rq /\ pc' = "rq_pad"
    /\ UNCHANGED <<MODEL_PATH_exists, MODEL_HANDLE, served>>
    /\ requestFrame

\* server.py 176-190, process_image_mangaocr.py 154-177: the padded image is
\* built and saved in a second temporary file; an exception here leaves through
\* the outer finally (service) or the except clause (webserver)
PadImage ==
    /\ pc = "rq_pad"
    /\ IF ~rq.small
       THEN /\ pc' = "rq_detect"
            /\ UNCHANGED <<temp_files, rq>>
       ELSE IF rq.raises = "save_padded"
       THEN /\ temp_files' = UnlinkTempImage(temp_files \cup {"temp_padded"})
            /\ rq' = [rq EXCEPT !.exc = "Exception"]
            /\ pc' = "rq_respond"
       ELSE /\ temp_files' = temp_files \cup {"temp_padded"}
            /\ rq' = [rq EXCEPT !.padded = TRUE]
            /\ pc' = "rq_detect"
    /\ UNCHANGED <<MODEL_PATH_exists, MODEL_HANDLE, served>>
    /\ requestFrame

\* detect_regions_from_path inside its try/finally (server.py 193-205,
\* process_image_mangaocr.py 190-204, manga_yolo_detector.py 268-276)
DetectRegions ==
    /\ pc = "rq_detect"
    /\ LET model == ensure_model(MODEL_HANDLE, MODEL_PATH_exists)
           exc == IF model.raised THEN "ModelNotFoundError"
                  ELSE IF rq.raises = "predict" THEN "Exception"
                  ELSE ""
       IN  /\ MODEL_HANDLE' = model.handle
           /\ rq' = [rq EXCEPT !.exc = exc, !.file_seen = MODEL_PATH_exists]
           /\ temp_files' = IF exc = "" THEN UnlinkTempPadded(temp_files)
                            ELSE UnlinkTempImage(UnlinkTempPadded(temp_files))
           /\ pc' = IF exc = "" THEN "rq_later" ELSE "rq_respond"
    /\ UNCHANGED <<MODEL_PATH_exists, served>>
    /\ requestFrame

\* Steps 2-4 and the outer finally (server.py 207-343)
LaterSteps ==
    /\ pc = "rq_later"
    /\ rq' = [rq EXCEPT !.exc = IF rq.raises = "later" THEN "Exception" ELSE ""]
    /\ temp_files' = UnlinkTempImage(temp_files)
    /\ pc' = "rq_respond"
    /\ UNCHANGED <<MODEL_PATH_exists, MODEL_HANDLE, served>>
    /\ requestFrame

\* what process_image answers (server.py 391-421, process_image_mangaocr.py
\* 408-431)
Answer(request) ==
    [variant |-> request.variant,
     raises |-> request.raises,
     file_seen |-> request.file_seen,
     exc |-> request.exc,
     status |-> IF request.exc = "" THEN "success" ELSE "error",
     error_type |-> IF request.variant = "service" THEN request.exc ELSE "",
     message |-> IF request.exc = "ModelNotFoundError"
                 THEN IF request.variant = "service"
                      THEN "Could not find Manga109 YOLO model at"
                      ELSE "Manga109 YOLO model not found."
                 ELSE IF request.exc = "" THEN "" ELSE "str(e)"]

RespondRequest ==
    /\ pc = "rq_respond"
    /\ served' = Append(served, Answer(rq))
    /\ rq' = NoRequest
    /\ pc' = "rq_idle"
    /\ UNCHANGED <<MODEL_PATH_exists, MODEL_HANDLE, temp_files>>
    /\ requestFrame

\* the setup script downloads the weight file
InstallModel ==
    /\ ~MODEL_PATH_exists
    /\ pc \in {"rq_idle", "rq_temp", "rq_pad", "rq_detect", "rq_later", "rq_respond"}
    /\ MODEL_PATH_exists' = TRUE
    /\ UNCHANGED <<pc, MODEL_HANDLE, temp_files, rq, served>>
    /\ requestFrame

\* the weight file is deleted
RemoveModel ==
    /\ MODEL_PATH_exists
    /\ pc \in {"rq_idle", "rq_temp", "rq_pad", "rq_detect", "rq_later", "rq_respond"}
    /\ MODEL_PATH_exists' = FALSE
    /\ UNCHANGED <<pc, MODEL_HANDLE, temp_files, rq, served>>
    /\ requestFrame

NextRequest ==
    \/ Receive
    \/ CreateTempImage
    \/ PadImage
    \/ DetectRegions
    \/ LaterSteps
    \/ RespondRequest
    \/ InstallModel
    \/ RemoveModel

SpecRequest == InitRequest /\ [][NextRequest]_vars

-----------------------------------------------------------------------------
(* Reference notions used by the properties *)

IntersectionArea(a, b) ==
    LET w == Min(a.x_max, b.x_max) - Max(a.x_min, b.x_min)
        h == Min(a.y_max, b.y_max) - Max(a.y_min, b.y_min)
    IN  IF w > 0 /\ h > 0 THEN w * h ELSE 0

\* intersection area / smaller area * 100 > allowed, as a statement about
\* exact quotients (a positive area over a zero area exceeds everything)
OverlapAbove(a, b, allowed) ==
    LET inter == IntersectionArea(a, b)
        smaller == IF a.area <= b.area THEN a.area ELSE b.area
    IN  IF smaller > 0 THEN inter * 100 > allowed * smaller
        ELSE IF smaller < 0 THEN inter * 100 < allowed * smaller
        ELSE inter > 0

Contained(b, a) ==
    /\ a.x_min <= b.x_min /\ b.x_min <= b.x_max /\ b.x_max <= a.x_max
    /\ a.y_min <= b.y_min /\ b.y_min <= b.y_max /\ b.y_max <= a.y_max

Kept == (1 .. Len(filtered_detections)) \ regions_to_remove

\* position in the input list of the k-th survivor
KthKept(k) == CHOOSE i \in Kept : Cardinality({ m \in Kept : m < i }) = k - 1

NoPairAbove ==
    \A a, b \in 1 .. Len(filtered_detections) :
        a < b => ~OverlapAbove(filtered_detections[a], filtered_detections[b],
                               overlap_allowed_percent)

-----------------------------------------------------------------------------
(* Properties *)

\* C1: running the overlap filter on its own output removes nothing more:
\* dedup(dedup(L)) = dedup(L).
C1_DedupIdempotent ==
    pc = "deduped" =>
        Dedup(final_detections, overlap_allowed_percent) = final_detections

C1_Witness ==
    /\ pc = "deduped"
    /\ regions_to_remove # {}
    /\ Len(final_detections) >= 2
    /\ \E a, b \in 1 .. Len(final_detections) :
          a < b /\ IntersectionArea(final_detections[a], final_detections[b]) > 0

\* C2: after deduplication every two remaining regions have an overlap
\* percentage (intersection / smaller area * 100) not above the threshold.
C2_SurvivorsWithinThreshold ==
    pc = "deduped" =>
        \A a, b \in 1 .. Len(final_detections) :
            a < b => ~OverlapAbove(final_detections[a], final_detections[b],
                                   overlap_allowed_percent)

C2_Witness ==
    /\ pc = "deduped"
    /\ Cardinality(regions_to_remove) >= 1
    /\ \E a, b \in 1 .. Len(final_detections) :
          /\ a < b
          /\ IntersectionArea(final_detections[a], final_detections[b]) > 0
          /\ overlap_allowed_percent > 0
          /\ ~OverlapAbove(final_detections[a], final_detections[b],
                           overlap_allowed_percent)

\* C3 as stated: of two boxes A and B handed to the overlap filter, in either
\* order, with B fully contained in A, B is removed and A is kept whenever
\* the threshold is below 100.
C3_ContainedRemoved_Original ==
    (pc = "deduped" /\ Len(filtered_detections) = 2 /\ overlap_allowed_percent < 100) =>
        \A a, b \in {1, 2} :
            (a # b /\ Contained(filtered_detections[b], filtered_detections[a]))
                => regions_to_remove = {b}

\* C3 amended: of two boxes A and B handed to the overlap filter, in either
\* order, where B has positive width and height, lies fully inside A and has
\* a smaller area than A, B is removed and A is kept whenever the threshold
\* is below 100.
C3_ContainedRemoved ==
    (pc = "deduped" /\ Len(filtered_detections) = 2 /\ overlap_allowed_percent < 100) =>
        \A a, b \in {1, 2} :
            ( /\ a # b
              /\ Contained(filtered_detections[b], filtered_detections[a])
              /\ filtered_detections[b].width > 0
              /\ filtered_detections[b].height > 0
              /\ filtered_detections[b].area < filtered_detections[a].area )
                => /\ regions_to_remove = {b}
                   /\ final_detections = << filtered_detections[a] >>

C3_Witness ==
    /\ pc = "deduped"
    /\ Len(filtered_detections) = 2
    /\ overlap_allowed_percent = 99
    /\ Contained(filtered_detections[1], filtered_detections[2])
    /\ filtered_detections[1].width > 0
    /\ filtered_detections[1].height > 0
    /\ filtered_detections[1].area * 4 < filtered_detections[2].area
    /\ regions_to_remove = {1}

\* C4: the output of the overlap filter is the input list with the removed
\* regions deleted: survivors in their original order with unchanged fields,
\* and the whole input list when no pair is above the threshold.
C4_OutputIsInputMinusRemoved ==
    pc = "deduped" =>
        /\ regions_to_remove \subseteq 1 .. Len(filtered_detections)
        /\ Len(final_detections) = Cardinality(Kept)
        /\ \A k \in 1 .. Len(final_detections) :
              final_detections[k] = filtered_detections[KthKept(k)]
        /\ NoPairAbove => final_detections = filtered_detections

C4_Witness ==
    /\ pc = "deduped"
    /\ Len(filtered_detections) = 3
    /\ regions_to_remove = {2}
    /\ final_detections = << filtered_detections[1], filtered_detections[3] >>
    /\ filtered_detections[1] # filtered_detections[3]

C4_WitnessUnchanged ==
    /\ pc = "deduped"
    /\ Len(filtered_detections) >= 2
    /\ NoPairAbove
    /\ \E a, b \in 1 .. Len(filtered_detections) :
          a < b /\ IntersectionArea(filtered_detections[a], filtered_detections[b]) > 0

\* C5 as stated: calculate_overlap_percent returns exactly 0, and raises no
\* division error, whenever either box has a zero or negative area.
C5_NonPositiveAreaGivesZero ==
    (pc = "returned" /\ (ov_bbox1.area <= 0 \/ ov_bbox2.area <= 0)) =>
        /\ ~DivisionError(ov_result)
        /\ ov_result.num = 0

\* C6: padding happens iff w < 640 or h < 640; then the canvas is
\* max(w,640) x max(h,640), the offsets are half the difference (rounded
\* down) and the original lies inside the canvas; otherwise the offsets are
\* (0,0) and the detector is given the original image.
C6_Letterbox ==
    pc # "start" =>
        /\ temp_padded_file <=> (original_width < 640 \/ original_height < 640)
        /\ temp_padded_file =>
              /\ target_width = (IF original_width > 640 THEN original_width ELSE 640)
              /\ target_height = (IF original_height > 640 THEN original_height ELSE 640)
              /\ padding_x = (target_width - original_width) \div 2
              /\ padding_y = (target_height - original_height) \div 2
              /\ padding_x >= 0 /\ padding_x + original_width <= target_width
              /\ padding_y >= 0 /\ padding_y + original_height <= target_height
              /\ yolo_image_path = "temp_padded_file"
        /\ ~temp_padded_file =>
              /\ padding_x = 0 /\ padding_y = 0
              /\ yolo_image_path = "temp_image_path"

C6_Witness ==
    /\ pc = "padded"
    /\ temp_padded_file
    /\ original_width >= 640
    /\ original_height < 640
    /\ padding_x = 0
    /\ padding_y > 0
    /\ 2 * padding_y < target_height - original_height

C6_WitnessNoPadding ==
    /\ pc = "padded"
    /\ ~temp_padded_file
    /\ original_width >= 640 /\ original_height >= 640

\* C7: for every integer coordinate (x, y) inside the original image,
\* pasting it onto the canvas and then un-padding it as Step 2 does
\* (subtract the offsets, then clip) gives (x, y) back; in particular every
\* region built from a detector box whose corners are pasted image points
\* carries exactly those points.
C7_RoundTrip ==
    /\ pc = "padded" =>
          /\ \A x \in 0 .. original_width :
                /\ ClipLow(Unpad(Paste(x, padding_x), padding_x, padding_x, padding_y)) = x
                /\ ClipHigh(original_width,
                            Unpad(Paste(x, padding_x), padding_x, padding_x, padding_y)) = x
          /\ \A y \in 0 .. original_height :
                /\ ClipLow(Unpad(Paste(y, padding_y), padding_y, padding_x, padding_y)) = y
                /\ ClipHigh(original_height,
                            Unpad(Paste(y, padding_y), padding_y, padding_x, padding_y)) = y
    /\ pc = "filtered" =>
          \A k \in 1 .. Len(filtered_detections) :
              LET r == filtered_detections[k]
                  b == r.detection.bbox
              IN  /\ (b.x_min % 2 = 0 /\ (b.x_min \div 2) - padding_x \in 0 .. original_width)
                        => r.x_min + padding_x = b.x_min \div 2
                  /\ (b.x_max % 2 = 0 /\ (b.x_max \div 2) - padding_x \in 0 .. original_width)
                        => r.x_max + padding_x = b.x_max \div 2
                  /\ (b.y_min % 2 = 0 /\ (b.y_min \div 2) - padding_y \in 0 .. original_height)
                        => r.y_min + padding_y = b.y_min \div 2
                  /\ (b.y_max % 2 = 0 /\ (b.y_max \div 2) - padding_y \in 0 .. original_height)
                        => r.y_max + padding_y = b.y_max \div 2

C7_Witness ==
    /\ pc = "filtered"
    /\ padding_x > 0
    /\ padding_y = 0
    /\ \E k \in 1 .. Len(filtered_detections) :
          LET r == filtered_detections[k]
              b == r.detection.bbox
          IN  /\ b.x_min % 2 = 0 /\ b.x_max % 2 = 0 /\ b.y_min % 2 = 0 /\ b.y_max % 2 = 0
              /\ r.x_min > 0 /\ r.x_max < original_width
              /\ r.y_min > 0 /\ r.y_max < original_height
              /\ r.x_min + padding_x = b.x_min \div 2
              /\ r.y_max + padding_y = b.y_max \div 2

\* C8 as stated: every region that Step 2 hands to the overlap filter has all
\* four coordinates inside the original image.
C8_RegionsClipped ==
    pc \in {"filtered", "deduped"} =>
        \A k \in 1 .. Len(filtered_detections) :
            LET r == filtered_detections[k]
            IN  /\ 0 <= r.x_min /\ r.x_min <= original_width
                /\ 0 <= r.x_max /\ r.x_max <= original_width
                /\ 0 <= r.y_min /\ r.y_min <= original_height
                /\ 0 <= r.y_max /\ r.y_max <= original_height

\* number of set pixels of a rasterized mask
SetPixels(mask) == Cardinality({ i \in 1 .. Len(mask.data) : mask.data[i] # 0 })

\* C9: whenever the mask rasterized by extract_foreground_background_colors
\* has fewer than min_pixels set pixels, the function returns None, the
\* clustering step (extract_colors) has not been entered and nothing is raised.
C9_MaskSizeGate ==
    (/\ caller = "efb"
     /\ pc # "efb_entry"
     /\ ~mask_array.none
     /\ SetPixels(mask_array) < efb_args.min_pixels)
        => /\ pc = "efb_return"
           /\ efb_result = None
           /\ ec = NoLocals
           /\ km = NoKMeans
           /\ colors = <<>>
           /\ raised = ""

C9_Witness ==
    /\ caller = "efb"
    /\ pc = "efb_return"
    /\ ~mask_array.none
    /\ SetPixels(mask_array) > 0
    /\ SetPixels(mask_array) = efb_args.min_pixels - 1
    /\ efb_result = None

\* C10: extract_colors never raises, whatever its arguments and whatever
\* fails inside (sampling, CPU k-means, nearest-centroid assignment,
\* aggregation); it returns a list, which is empty when the mask selects no
\* pixel or no distinct colour remains.
C10_NeverRaises ==
    /\ pc # "ec_raised"
    /\ raised = ""
    /\ (pc = "ec_return" /\ ~mask_array.none /\ SetPixels(mask_array) = 0) => colors = <<>>
    /\ (pc = "ec_return" /\ ec.total_pixels > 0 /\ ec.cluster_count <= 0) => colors = <<>>


\* sum of the reported percentages, in tenths of a percent
PercentageSum(cs) == SumSeq([i \in 1 .. Len(cs) |-> cs[i].percentage])

\* C11: for every non-empty list returned by extract_colors the reported
\* percentages (each rounded to one decimal) sum to more than 0 and to at
\* most 100.
C11_PercentagesSum ==
    (pc \in {"ec_return", "efb_return"} /\ colors # <<>>)
        => (PercentageSum(colors) > 0 /\ PercentageSum(colors) <= 1000)


\* clusters of the final assignment that carry weight
WeightedClusters ==
    { idx \in 1 .. ec.cluster_count : SumWhere(ec.weights.num, ec.labels, idx, 1) > 0 }

\* C12: every list returned by extract_colors is ordered by non-increasing
\* percentage, has one entry per cluster of positive weight and none for a
\* cluster of zero weight, and every rgb component is an integer in 0..255.
C12_ResultWellFormed ==
    (pc \in {"ec_return", "efb_return"} /\ colors # <<>>)
        => /\ \A i \in 1 .. Len(colors) - 1 :
                  colors[i].percentage >= colors[i + 1].percentage
           /\ Len(colors) = Cardinality(WeightedClusters)
           /\ \A i \in 1 .. Len(colors) : \A c \in 1 .. 3 : colors[i].rgb[c] \in 0 .. 255

C12_Witness ==
    /\ pc = "ec_return"
    /\ Len(colors) >= 2
    /\ colors[1].percentage > colors[2].percentage
    /\ Len(colors) < ec.cluster_count


\* extract_colors has just chosen its backend and has not tried the GPU yet
BackendChosen == pc \in {"ec_gpu", "ec_cpu"} /\ gpu_pool = "empty" /\ km = NoKMeans

\* C13 as stated: the GPU is chosen exactly when a GPU backend is available and
\* the mode is force, or the mode is auto and pixel_count >= min_pixels_for_gpu.
C13_BackendSelection_Original ==
    BackendChosen =>
        (ec.use_gpu <=>
            /\ CUPY_AVAILABLE
            /\ \/ extractor.use_gpu = "force"
               \/ /\ extractor.use_gpu = "auto"
                  /\ ec.total_pixels >= extractor.min_pixels_for_gpu)

\* C13: the GPU is chosen exactly when a GPU backend is available and the mode
\* is force, or the mode is auto or one of its aliases ("true", "yes") and
\* pixel_count >= min_pixels_for_gpu; never for mode never, for any other mode
\* or without a GPU backend.
C13_BackendSelection ==
    BackendChosen =>
        (ec.use_gpu <=>
            /\ CUPY_AVAILABLE
            /\ \/ extractor.use_gpu = "force"
               \/ /\ extractor.use_gpu \in {"auto", "true", "yes"}
                  /\ ec.total_pixels >= extractor.min_pixels_for_gpu)

C13_Witness ==
    /\ pc = "ec_gpu"
    /\ gpu_pool = "empty"
    /\ extractor.use_gpu = "auto"
    /\ ec.use_gpu
    /\ ec.total_pixels = extractor.min_pixels_for_gpu

C13_WitnessBelow ==
    /\ pc = "ec_cpu"
    /\ BackendChosen
    /\ CUPY_AVAILABLE
    /\ extractor.use_gpu = "auto"
    /\ ~ec.use_gpu
    /\ ec.total_pixels = extractor.min_pixels_for_gpu - 1


\* the GPU path was selected in this call and failed
GpuFailed == fault \in {"gpu_kmeans", "gpu_later"} /\ gpu_pool = "in_use"

\* C14: when the GPU path is selected and fails, the GPU error does not leave
\* extract_colors: the same call returns the result of the CPU path and
\* last_backend is "cpu" afterwards.
C14_GpuFallback ==
    GpuFailed =>
        /\ pc # "ec_raised"
        /\ raised = ""
        /\ pc \in {"ec_return", "efb_return"} =>
              /\ last_backend = "cpu"
              /\ colors # <<>>
              /\ colors = aggregate_results(ec.pixels,
                                            AssignLabels(ec.features, km.centroids),
                                            ec.cluster_count, ec.weights)

C14_Witness ==
    /\ GpuFailed
    /\ fault = "gpu_later"
    /\ extractor.use_gpu = "auto"
    /\ pc = "ec_return"
    /\ last_backend = "cpu"
    /\ Len(colors) >= 2


EntriesOf(cs) == { cs[i] : i \in 1 .. Len(cs) }

\* C16: on a non-empty cluster list _choose_background_foreground returns a
\* background and a foreground that are both entries of the list, never None;
\* for a list of one cluster both are that cluster.
C16_ChooserReturnsMembers ==
    (pc = "ch_returned" /\ ch_colors # <<>>)
        => /\ ch_result[1] \in EntriesOf(ch_colors)
           /\ ch_result[2] \in EntriesOf(ch_colors)
           /\ Len(ch_colors) = 1 => (ch_result[1] = ch_colors[1] /\ ch_result[2] = ch_colors[1])

C16_Witness ==
    /\ pc = "ch_returned"
    /\ Len(ch_colors) = 1
    /\ ch_result = <<ch_colors[1], ch_colors[1]>>

C16_WitnessSeveral ==
    /\ pc = "ch_returned"
    /\ Len(ch_colors) = 3
    /\ ch_result[1] = ch_colors[3]
    /\ ch_result[2] = ch_colors[2]

\* C17: whenever the input has at least two clusters of different RGB value,
\* the background and the foreground returned are different clusters of
\* different RGB value.
C17_BackgroundForegroundDistinct ==
    (/\ pc = "ch_returned"
     /\ \E a, b \in EntriesOf(ch_colors) : a.rgb # b.rgb)
        => ch_result[1].rgb # ch_result[2].rgb

C17_Witness ==
    /\ pc = "ch_returned"
    /\ Len(ch_colors) = 3
    /\ ch_colors[1].rgb = ch_colors[2].rgb
    /\ ch_colors[3].rgb # ch_colors[1].rgb
    /\ ch_result[1] = ch_colors[1]
    /\ ch_result[2] = ch_colors[3]


\* the response carries a text object for region k
HasText(k) == \E i \in 1 .. Len(text_objects) : text_objects[i].region = k

\* C18 as stated: whatever extract_foreground_background_colors does for a
\* region (raise, return None), the request is answered with success, the
\* answer contains the text of that region without colour fields and the
\* results of all other regions whose text was recognised.
C18_ColorFailureNotFatal ==
    pc = "responded" =>
        /\ response = "success"
        /\ \A k \in 1 .. Len(region_events) :
              region_events[k].ocr = "text" =>
                  /\ HasText(k)
                  /\ region_events[k].color \in {"raised", "none"} =>
                        \A i \in 1 .. Len(text_objects) :
                            text_objects[i].region = k => text_objects[i].color_info = None


\* the pixels under the mask contain both black and white, so the colours of
\* an Otsu split differ by far more than min_contrast = 30
HighContrastRegion ==
    /\ \E i \in 1 .. Len(ec.pixels) : ec.pixels[i] = 0
    /\ \E i \in 1 .. Len(ec.pixels) : ec.pixels[i] = 255

\* C19 as stated: the color_source attached to a result names the strategy
\* that produced the colours: the adaptive-threshold path for a region whose
\* Otsu-split colours differ by at least min_contrast, otherwise clustering,
\* with a tag that tells the GPU backend from the CPU backend.
C19_ColorSourceNamesStrategy ==
    (pc = "efb_return" /\ ~efb_result.none)
        => IF HighContrastRegion
           THEN efb_result.color_source \notin {"ugtlive_gpu_kmeans", "marearts_xcolor"}
           ELSE (efb_result.color_source = "ugtlive_gpu_kmeans") <=> (last_backend = "gpu")


\* regions a and b of the filter's input form a suppressing pair
Suppressing(a, b) ==
    OverlapAbove(filtered_detections[a], filtered_detections[b], overlap_allowed_percent)

\* in the pair of a and b the rule designates a: a comes first and is strictly
\* smaller, or a comes second and is not larger
Designated(a, b) ==
    IF a < b THEN filtered_detections[a].area < filtered_detections[b].area
    ELSE filtered_detections[b].area >= filtered_detections[a].area

\* C20 as stated: in every suppressing pair (i, j) with i < j the filter
\* removes i when area_i < area_j and removes j otherwise.
C20_SmallerRemoved_Original ==
    pc = "deduped" =>
        \A i, j \in 1 .. Len(filtered_detections) :
            (i < j /\ Suppressing(i, j)) =>
                (IF Designated(i, j) THEN i \in regions_to_remove
                 ELSE j \in regions_to_remove)

\* C20 amended: of every suppressing pair at least one region is removed, and
\* every removed region is designated by the rule in a suppressing pair with
\* some other region (it comes first and is strictly smaller, or comes second
\* and is not larger); so with equal areas the second-indexed region is the
\* one removed and no region is removed because of a strictly smaller one.
\* The designated region of a pair may survive when its partner was removed
\* before the pair was reached.
C20_SmallerRemoved ==
    pc = "deduped" =>
        /\ \A i, j \in 1 .. Len(filtered_detections) :
              (i < j /\ Suppressing(i, j)) =>
                  (i \in regions_to_remove \/ j \in regions_to_remove)
        /\ \A r \in regions_to_remove :
              \E t \in (1 .. Len(filtered_detections)) \ {r} :
                  Suppressing(r, t) /\ Designated(r, t)
        /\ (Len(filtered_detections) = 2 /\ Suppressing(1, 2)) =>
              regions_to_remove = (IF Designated(1, 2) THEN {1} ELSE {2})

C20_Witness ==
    /\ pc = "deduped"
    /\ Len(filtered_detections) = 2
    /\ filtered_detections[1].area = filtered_detections[2].area
    /\ filtered_detections[1] # filtered_detections[2]
    /\ Suppressing(1, 2)
    /\ regions_to_remove = {2}

C20_WitnessSkipped ==
    /\ pc = "deduped"
    /\ Len(filtered_detections) = 3
    /\ Suppressing(2, 3)
    /\ ~Designated(2, 3)
    /\ regions_to_remove = {2}


\* C21: once a region is marked removed it takes part in no later overlap
\* comparison, neither as pivot i nor as partner j: every comparison is made
\* between two regions that are both unmarked at that moment.
C21_RemovedNotCompared ==
    \A k \in 1 .. Len(comparisons) :
        /\ comparisons[k].i \notin comparisons[k].removed
        /\ comparisons[k].j \notin comparisons[k].removed

C21_Witness ==
    /\ pc = "deduped"
    /\ Len(filtered_detections) = 3
    /\ regions_to_remove = {2}
    /\ Suppressing(2, 3)
    /\ Len(comparisons) = 2

C21_WitnessBreak ==
    /\ pc = "deduped"
    /\ Len(filtered_detections) = 3
    /\ 1 \in regions_to_remove
    /\ Suppressing(1, 3)
    /\ Len(comparisons) = 2
    /\ comparisons[1].j = 2
    /\ comparisons[2].i = 2

\* the loop computes what the overlap filter of the pipeline computes
DedupStepsAgree ==
    pc = "deduped" =>
        regions_to_remove = RegionsToRemove(filtered_detections, overlap_allowed_percent)


\* C22 as stated: every region that reaches the overlap filter has stored
\* width >= min_region_width and height >= min_region_height, so with
\* minimums of at least 1 its stored area is positive.
C22_MinimumSizeGate ==
    pc \in {"filtered", "deduped"} =>
        \A k \in 1 .. Len(filtered_detections) :
            LET r == filtered_detections[k]
            IN  /\ r.width >= min_region_width
                /\ r.height >= min_region_height
                /\ (min_region_width >= 1 /\ min_region_height >= 1) => r.area > 0


\* C23 as stated: whenever extract_colors has returned or raised, the GPU
\* memory pool has been released, whether the GPU path succeeded, failed or
\* returned early.
C23_GpuPoolReleased ==
    pc \in {"ec_return", "ec_raised", "efb_return"} => gpu_pool = "empty"


\* the reference rule for the background, on the clusters of a list: the
\* clusters that qualify as bright background
BrightClusters(cs) ==
    { e \in EntriesOf(cs) : /\ e.percentage >= 120
                            /\ Brightness(e.rgb) >= 2000000
                            /\ Saturation(e.rgb) <= 45 }

\* the largest-percentage cluster (the first of them in list order)
LargestCluster(cs) ==
    cs[CHOOSE a \in 1 .. Len(cs) :
          \A b \in 1 .. Len(cs) :
              cs[b].percentage < cs[a].percentage
                  \/ (cs[b].percentage = cs[a].percentage /\ a <= b)]

\* the clusters that may replace a dark largest cluster
Alternatives(cs) ==
    { e \in EntriesOf(cs) :
          /\ e # LargestCluster(cs)
          /\ e.percentage >= 150
          /\ \/ Brightness(e.rgb) - Brightness(LargestCluster(cs).rgb) >= 600000
             \/ Brightness(LargestCluster(cs).rgb) - Brightness(e.rgb) >= 600000 }

DarkTopReplaced(cs) ==
    /\ BrightClusters(cs) = {}
    /\ Brightness(LargestCluster(cs).rgb) < 1300000
    /\ Alternatives(cs) # {}

\* C24: the background returned by _choose_background_foreground is, when some
\* cluster has percentage >= 12, brightness >= 200 and saturation <= 45, one of
\* these with maximal (percentage, brightness); otherwise the largest-percentage
\* cluster, unless that one has brightness < 130 and another cluster has
\* percentage >= 15 and a brightness at least 60 away, and then a brightest such
\* alternative.
C24_BackgroundRule ==
    (pc = "ch_returned" /\ ch_colors # <<>>) =>
        LET background == ch_result[1]
        IN  IF BrightClusters(ch_colors) # {}
            THEN /\ background \in BrightClusters(ch_colors)
                 /\ \A e \in BrightClusters(ch_colors) :
                        \/ e.percentage < background.percentage
                        \/ /\ e.percentage = background.percentage
                           /\ Brightness(e.rgb) <= Brightness(background.rgb)
            ELSE IF DarkTopReplaced(ch_colors)
            THEN /\ background \in Alternatives(ch_colors)
                 /\ \A e \in Alternatives(ch_colors) :
                        Brightness(e.rgb) <= Brightness(background.rgb)
            ELSE background = LargestCluster(ch_colors)

C24_Witness ==
    /\ pc = "ch_returned"
    /\ Len(ch_colors) = 3
    /\ Cardinality(BrightClusters(ch_colors)) = 2
    /\ LargestCluster(ch_colors) \notin BrightClusters(ch_colors)
    /\ ch_result[1] \in BrightClusters(ch_colors)

C24_WitnessDarkTop ==
    /\ pc = "ch_returned"
    /\ Len(ch_colors) = 3
    /\ DarkTopReplaced(ch_colors)
    /\ Cardinality(Alternatives(ch_colors)) = 2
    /\ ch_result[1] # LargestCluster(ch_colors)

C24_WitnessLargest ==
    /\ pc = "ch_returned"
    /\ Len(ch_colors) = 3
    /\ BrightClusters(ch_colors) = {}
    /\ ~DarkTopReplaced(ch_colors)
    /\ ch_result[1] = LargestCluster(ch_colors)
    /\ ch_colors[1] # LargestCluster(ch_colors)


\* C25: for a list of at least two clusters the foreground returned by
\* _choose_background_foreground is a cluster other than the background, and no
\* other non-background cluster is farther (Euclidean distance of the RGB
\* values) from the background.
C25_ForegroundFarthest ==
    (pc = "ch_returned" /\ Len(ch_colors) >= 2) =>
        \E b, f \in 1 .. Len(ch_colors) :
            /\ b # f
            /\ ch_result[1] = ch_colors[b]
            /\ ch_result[2] = ch_colors[f]
            /\ \A o \in (1 .. Len(ch_colors)) \ {b} :
                   (ch_colors[o].rgb[1] - ch_colors[b].rgb[1]) * (ch_colors[o].rgb[1] - ch_colors[b].rgb[1])
                   + (ch_colors[o].rgb[2] - ch_colors[b].rgb[2]) * (ch_colors[o].rgb[2] - ch_colors[b].rgb[2])
                   + (ch_colors[o].rgb[3] - ch_colors[b].rgb[3]) * (ch_colors[o].rgb[3] - ch_colors[b].rgb[3])
                   <= (ch_colors[f].rgb[1] - ch_colors[b].rgb[1]) * (ch_colors[f].rgb[1] - ch_colors[b].rgb[1])
                      + (ch_colors[f].rgb[2] - ch_colors[b].rgb[2]) * (ch_colors[f].rgb[2] - ch_colors[b].rgb[2])
                      + (ch_colors[f].rgb[3] - ch_colors[b].rgb[3]) * (ch_colors[f].rgb[3] - ch_colors[b].rgb[3])

\* the farthest cluster is neither the first other cluster nor the second
\* largest
C25_Witness ==
    /\ pc = "ch_returned"
    /\ Len(ch_colors) = 3
    /\ ch_result[1] = ch_colors[1]
    /\ ch_result[2] = ch_colors[3]
    /\ ch_colors[1].rgb = <<0, 0, 0>>
    /\ ch_colors[2].rgb = <<255, 255, 0>>
    /\ ch_colors[3].rgb = <<255, 255, 255>>
    /\ ch_colors[3].percentage < ch_colors[2].percentage


\* the pass of the k-means loop that is about to run finds the labels of the
\* previous pass again
LabelsRepeat ==
    /\ pc = "km_loop"
    /\ km.labels # <<>>
    /\ AssignLabels(ec.sample_features, km.centroids) = km.labels

\* C26: every call of extract_colors ends (it returns or raises); the k-means
\* loop makes at most max_iter passes, max_iter being at least 5, a pass that
\* finds the labels of the previous pass ends the loop, and the loop ends only
\* so or with its passes used up.
C26_Terminates ==
    /\ (pc = "ec_entry") ~> (pc \in {"ec_return", "ec_raised"})
    /\ [](extractor.max_iter >= 5 /\ km.iter <= extractor.max_iter)
    /\ [][(pc = "km_loop" /\ pc' = "km_loop") => ~LabelsRepeat]_vars
    /\ [][(pc = "km_loop" /\ pc' # "km_loop")
             => (LabelsRepeat \/ km.iter = extractor.max_iter)]_vars

\* the loop used all its passes without finding the same labels twice
C26_Witness ==
    /\ pc = "ec_return"
    /\ km.iter = extractor.max_iter
    /\ AssignLabels(ec.sample_features, km.centroids) # km.labels

\* the loop stopped early on repeated labels
C26_WitnessConverged ==
    /\ pc = "ec_return"
    /\ km.iter \in 2 .. (extractor.max_iter - 1)
    /\ AssignLabels(ec.sample_features, km.centroids) = km.labels


\* pixels of the regions whose centroids are compared with the weighted mean
SmallRegion == 6

\* C27 as stated: a pass of the k-means loop that updates the centroids sets
\* the centroid of every non-empty cluster to the mean of its points weighted
\* by the per-pixel weights, and the centroid of every empty cluster to a data
\* point (stated for calls that cluster all of at most SmallRegion pixels, where
\* point i carries weight i and the products stay within 32 bits).
C27_WeightedCentroids ==
    [][(/\ pc = "km_loop"
        /\ pc' = "km_loop"
        /\ Len(ec.sample_features) = Len(ec.weights.num)
        /\ Len(ec.sample_features) <= SmallRegion)
       => \A idx \in 1 .. ec.cluster_count :
             LET c == km'.centroids[idx]
                 weighted == [i \in 1 .. Len(ec.sample_features) |->
                                 ec.sample_features[i] * ec.weights.num[i]]
             IN  IF Members(km'.labels, idx) = {}
                 THEN \E i \in 1 .. Len(ec.sample_features) :
                         c.sum = c.cnt * ec.sample_features[i]
                 ELSE c.sum * SumWhere(ec.weights.num, km'.labels, idx, 1)
                         = c.cnt * SumWhere(weighted, km'.labels, idx, 1)]_vars


\* the answer names the model error
NamesModelError(answer) ==
    \/ answer.error_type = "ModelNotFoundError"
    \/ answer.message = "Manga109 YOLO model not found."

C28_WitnessRaised ==
    /\ pc = "rq_respond"
    /\ rq.exc = "ModelNotFoundError"
    /\ rq.variant = "webserver"
    /\ MODEL_HANDLE = "None"
    /\ MODEL_PATH_exists

\* C30 as stated: when a request has left process_manga_ocr (process_image of
\* the webserver), by return or by exception, none of its temporary files is
\* left on disk.
C30_NoTempFileLeft ==
    pc \in {"rq_respond", "rq_idle"} => temp_files = {}


\* C29 as stated: after deduplication every removed region exceeds the
\* threshold with at least one region that remains in the output.
C29_RemovedBySurvivor ==
    pc = "deduped" =>
        \A r \in regions_to_remove : \E t \in Kept : Suppressing(r, t)


====
